---------------------------- MODULE Spec2Model ----------------------------
(***************************************************************************)
(* A model of the subproblem layer of Uno:                                 *)
(*   - the primal-dual interior-point subproblem                           *)
(*     (PrimalDualInteriorPointSubproblem.cpp),                            *)
(*   - the active-set helpers (ActiveSetMethod.cpp,                        *)
(*     InequalityConstrainedMethod.cpp).                                   *)
(* Doubles are modelled as exact extended rationals <<n, d>>:              *)
(*   d > 0, gcd(n, d) = 1   a finite value n/d                             *)
(*   <<1, 0>>, <<-1, 0>>    +infinity, -infinity                           *)
(*   <<0, 0>>               NaN                                            *)
(* Rounding is not modelled; signed zeros are not distinguished.           *)
(***************************************************************************)
EXTENDS Integers, Sequences, FiniteSets, TLC

(***************************************************************************)
(* Extended rational arithmetic (the double operations the code uses).     *)
(***************************************************************************)
AbsInt(i) == IF i < 0 THEN -i ELSE i

SignInt(i) == IF i < 0 THEN -1 ELSE IF i = 0 THEN 0 ELSE 1

RECURSIVE GCD(_, _)
GCD(a, b) == IF b = 0 THEN a ELSE GCD(b, a % b)

Norm(n, d) ==
    IF d = 0 THEN <<SignInt(n), 0>>
    ELSE LET g == GCD(AbsInt(n), AbsInt(d))
         IN  <<(SignInt(d) * n) \div g, AbsInt(d) \div g>>

R(n, d) == Norm(n, d)

Zero == <<0, 1>>
One == <<1, 1>>
PosInf == <<1, 0>>
NegInf == <<-1, 0>>
NaN == <<0, 0>>

IsNaN(a) == a = NaN
IsInf(a) == a = PosInf \/ a = NegInf
is_finite(a) == a[2] # 0

Neg(a) == <<-a[1], a[2]>>

AbsX(a) == <<AbsInt(a[1]), a[2]>>

Add(a, b) ==
    IF IsNaN(a) \/ IsNaN(b) THEN NaN
    ELSE IF IsInf(a) THEN (IF IsInf(b) /\ b # a THEN NaN ELSE a)
    ELSE IF IsInf(b) THEN b
    ELSE LET g == GCD(a[2], b[2])
         IN  Norm(a[1] * (b[2] \div g) + b[1] * (a[2] \div g), (a[2] \div g) * b[2])

Sub(a, b) == Add(a, Neg(b))

Mul(a, b) ==
    IF IsNaN(a) \/ IsNaN(b) THEN NaN
    ELSE IF IsInf(a) \/ IsInf(b) THEN <<SignInt(a[1]) * SignInt(b[1]), 0>>
    ELSE LET g1 == GCD(AbsInt(a[1]), b[2])
             g2 == GCD(AbsInt(b[1]), a[2])
         IN  Norm((a[1] \div g1) * (b[1] \div g2), (a[2] \div g2) * (b[2] \div g1))

Div(a, b) ==
    IF IsNaN(a) \/ IsNaN(b) THEN NaN
    ELSE IF IsInf(b) THEN (IF IsInf(a) THEN NaN ELSE Zero)
    ELSE IF b[1] = 0 THEN <<SignInt(a[1]), 0>>
    ELSE IF IsInf(a) THEN <<a[1] * SignInt(b[1]), 0>>
    ELSE Mul(a, <<b[2] * SignInt(b[1]), AbsInt(b[1])>>)

\* n1/d1 < n2/d2 for d1, d2 > 0, by integer parts and then the reciprocals of
\* the fractional parts (no product is formed)
RECURSIVE LtFraction(_, _, _, _)
LtFraction(n1, d1, n2, d2) ==
    LET q1 == n1 \div d1
        q2 == n2 \div d2
        r1 == n1 % d1
        r2 == n2 % d2
    IN  IF q1 # q2 THEN q1 < q2
        ELSE IF r2 = 0 THEN FALSE
        ELSE IF r1 = 0 THEN TRUE
        ELSE LtFraction(d2, r2, d1, r1)

\* a < b on doubles: false as soon as one side is NaN
Lt(a, b) ==
    /\ ~IsNaN(a)
    /\ ~IsNaN(b)
    /\ IF IsInf(a) \/ IsInf(b)
       THEN (a = NegInf /\ b # NegInf) \/ (b = PosInf /\ a # PosInf)
       ELSE LtFraction(a[1], a[2], b[1], b[2])

Le(a, b) == ~IsNaN(a) /\ ~IsNaN(b) /\ (a = b \/ Lt(a, b))

\* std::max(a, b) is (a < b) ? b : a, std::min(a, b) is (b < a) ? b : a
StdMax(a, b) == IF Lt(a, b) THEN b ELSE a

StdMin(a, b) == IF Lt(b, a) THEN b ELSE a


(***************************************************************************)
(* Rounding of doubles.  A double keeps SignificandBits significant bits   *)
(* (53 in the build); the result of an addition or a subtraction is the    *)
(* exact result rounded to the nearest double, ties to even.  Exponents    *)
(* are not bounded: there is no overflow and no subnormal number.          *)
(***************************************************************************)
SignificandBits == 3

RECURSIVE normalise_significand(_, _, _)
\* n / d = (n' / d') * 2^e with 2^(p-1) <= n' / d' < 2^p
normalise_significand(n, d, e) ==
    IF n < (2 ^ (SignificandBits - 1)) * d THEN normalise_significand(2 * n, d, e - 1)
    ELSE IF n >= (2 ^ SignificandBits) * d THEN normalise_significand(n, 2 * d, e + 1)
    ELSE <<n, d, e>>

round_to_nearest_even(n, d) ==
    LET q == n \div d
        r == n % d
    IN  IF 2 * r < d THEN q
        ELSE IF 2 * r > d THEN q + 1
        ELSE IF q % 2 = 0 THEN q ELSE q + 1

round_to_double(a) ==
    IF ~is_finite(a) \/ a = Zero THEN a
    ELSE LET magnitude == AbsX(a)
             normal == normalise_significand(magnitude[1], magnitude[2], 0)
             significand == round_to_nearest_even(normal[1], normal[2])
             rounded == IF normal[3] >= 0 THEN R(significand * (2 ^ normal[3]), 1)
                        ELSE R(significand, 2 ^ (0 - normal[3]))
         IN  IF Lt(a, Zero) THEN Neg(rounded) ELSE rounded

\* operator- and operator+ of double
subtract_double(a, b) == round_to_double(Sub(a, b))

add_double(a, b) == round_to_double(Add(a, b))


(***************************************************************************)
(* State.                                                                  *)
(***************************************************************************)
VARIABLES
    pc,                           \* position of the driver / of the build
    assertion_failed,             \* the assert() that stopped the program, or "none"
    last,                         \* history: the last operation that ran
    problem,                      \* the NonlinearProblem handed to the subproblem
    parameters,                   \* options read by the constructor
    primals,                      \* iterate.primals
    lower_bounds,                 \* iterate.multipliers.lower_bounds
    upper_bounds,                 \* iterate.multipliers.upper_bounds
    multipliers_constraints,      \* iterate.multipliers.constraints
    barrier_parameter,            \* barrier_parameter_update_strategy's mu
    previous_barrier_parameter,
    solving_feasibility_problem,
    subproblem_definition_changed,
    evaluations_constraints,      \* this->evaluations.constraints
    solution,                     \* augmented_system.solution
    lower_delta_z,
    upper_delta_z,
    direction,
    number_subproblems_solved,
    first_iterate_flags,          \* the validity flags of the evaluations of the first iterate
    evaluations_objective_gradient,   \* this->evaluations.objective_gradient
    rhs,                          \* augmented_system.rhs
    dual_regularization_parameter,    \* history: the value handed to regularize_matrix
    trial_iterate,                \* history: the iterate of the latest second-order correction
    history                       \* history: what held at the last entry into / exit from
                                  \* the feasibility problem, and the number of
                                  \* second-order corrections

ipm_vars == <<pc, assertion_failed, last, problem, parameters, primals, lower_bounds,
              upper_bounds, multipliers_constraints, barrier_parameter,
              previous_barrier_parameter, solving_feasibility_problem,
              subproblem_definition_changed, evaluations_constraints, solution,
              lower_delta_z, upper_delta_z, direction, number_subproblems_solved,
              first_iterate_flags, evaluations_objective_gradient, rhs,
              dual_regularization_parameter, trial_iterate, history>>

\* the right-hand side of the augmented system and what it is built from
augmented_vars == <<evaluations_objective_gradient, rhs, dual_regularization_parameter,
                    trial_iterate>>

\* state of the active-set methods, 0-based as in the source
VARIABLES
    active_set_pc,                \* position of the driver in one active-set iteration
    original_problem,             \* the Problem: sizes, variables_bounds, constraint_bounds
    trust_region_radius,
    current_iterate_x,            \* the original variables of the current iterate
    variables_bounds,             \* result of generate_variables_bounds_
    elastic_variables,            \* ElasticVariables: partial maps positive, negative
    relaxed_primals,              \* primals of the iterate of the l1-relaxed problem
    direction_lower_bounds,
    direction_upper_bounds,
    l1qp_direction,               \* the Direction of the l1QP subproblem
    solver_active_set             \* history: the active set as the solver recorded it

active_set_vars == <<active_set_pc, original_problem, trust_region_radius, current_iterate_x,
                     variables_bounds, elastic_variables, relaxed_primals,
                     direction_lower_bounds, direction_upper_bounds, l1qp_direction,
                     solver_active_set>>

\* state of the LP steps of the active-set methods
VARIABLES
    lp_pc,                                \* position of the driver in the LP steps
    current_iterate_constraints,          \* current_iterate.constraints
    current_iterate_constraints_jacobian, \* current_iterate.constraints_jacobian
    current_iterate_objective_gradient,   \* current_iterate.objective_gradient
    constraints_bounds,                   \* bounds of the linearized constraints
    solver_initial_point,                 \* history: the point the solver was started from
    phase_2_direction,                    \* result of compute_lp_step_
    l1lp_direction,                       \* result of compute_l1lp_step_
    lp_number_subproblems_solved,
    predicted_reduction_evaluation        \* history: latest call of direction.predicted_reduction

lp_step_vars == <<lp_pc, current_iterate_constraints, current_iterate_constraints_jacobian,
                  current_iterate_objective_gradient, constraints_bounds,
                  solver_initial_point, phase_2_direction, l1lp_direction,
                  lp_number_subproblems_solved, predicted_reduction_evaluation>>

\* state of one LPSubproblem object
VARIABLES
    lpsub_pc,                         \* position of the driver of the LP subproblem
    lpsub_problem,                    \* the NonlinearProblem of the solve calls
    lpsub_trust_region_radius,
    lpsub_iterate,                    \* the current iterate of the latest solve
    lp_evaluations,                   \* this->evaluations
    variable_displacement_bounds,
    linearized_constraint_bounds,
    lp_solver_calls,                  \* history: what the external LP solver was called with
    lp_calls,                         \* history: the iterate and the flags of every solve
    lp_direction,                     \* the Direction returned by the latest solve
    lpsub_number_subproblems_solved

lp_subproblem_vars == <<lpsub_pc, lpsub_problem, lpsub_trust_region_radius, lpsub_iterate,
                        lp_evaluations, variable_displacement_bounds,
                        linearized_constraint_bounds, lp_solver_calls, lp_calls,
                        lp_direction, lpsub_number_subproblems_solved>>

\* state of the construction of the inequality handling method
VARIABLES
    factory_pc,                   \* position of the driver around the factory
    factory_options,              \* the Options handed to create
    qp_solvers,                   \* QPSolverFactory::available_solvers()
    linear_solvers,               \* SymmetricIndefiniteLinearSolverFactory::available_solvers()
    created_method,               \* the class of the object create returned, or "none"
    thrown_exception,             \* the exception create threw, or "none"
    strategies,                   \* result of available_strategies()
    strategies_returned           \* history: available_strategies() has been called

factory_vars == <<factory_pc, factory_options, qp_solvers, linear_solvers, created_method,
                  thrown_exception, strategies, strategies_returned>>

\* what the operations of one component leave alone
outside_interior_point == <<active_set_vars, lp_step_vars, lp_subproblem_vars, factory_vars>>

outside_active_set == <<ipm_vars, lp_step_vars, lp_subproblem_vars, factory_vars>>

outside_lp_steps == <<ipm_vars, lp_subproblem_vars, factory_vars>>

outside_lp_subproblem == <<ipm_vars, active_set_vars, lp_step_vars, factory_vars>>

outside_factory == <<ipm_vars, active_set_vars, lp_step_vars, lp_subproblem_vars>>

(***************************************************************************)
(* The problem seen by the interior-point subproblem.                      *)
(***************************************************************************)
number_variables == Len(problem.variable_lower_bounds)

number_constraints == problem.number_constraints

get_variable_lower_bound(i) == problem.variable_lower_bounds[i]

get_variable_upper_bound(i) == problem.variable_upper_bounds[i]

lower_bounded_variables == {i \in 1..number_variables : is_finite(get_variable_lower_bound(i))}

upper_bounded_variables == {i \in 1..number_variables : is_finite(get_variable_upper_bound(i))}

RECURSIVE SumSeq(_, _)
SumSeq(x, i) == IF i = 0 THEN Zero ELSE Add(SumSeq(x, i - 1), x[i])

\* the model's constraints: c_j(x) = x_1 + ... + x_n - j
evaluate_constraints(x) == [j \in 1..number_constraints |-> Sub(SumSeq(x, Len(x)), R(j, 1))]

RECURSIVE NormInfUpTo(_, _)
NormInfUpTo(v, i) == IF i = 0 THEN Zero ELSE StdMax(AbsX(v[i]), NormInfUpTo(v, i - 1))

\* the largest absolute value of the entries
norm_inf(v) == NormInfUpTo(v, Len(v))

ZeroVector(n) == [i \in 1..n |-> Zero]

(***************************************************************************)
(* PrimalDualInteriorPointSubproblem: the pure parts.                      *)
(***************************************************************************)
\* mutant: the perturbations are not limited by the range of the bounds
push_variable_to_interior_unlimited(variable_value, variable_bounds) ==
    LET perturbation_lb ==
            Mul(parameters.push_variable_to_interior_k1, StdMax(One, AbsX(variable_bounds.lb)))
        perturbation_ub ==
            Mul(parameters.push_variable_to_interior_k1, StdMax(One, AbsX(variable_bounds.ub)))
        pushed_up == StdMax(variable_value, Add(variable_bounds.lb, perturbation_lb))
    IN  StdMin(pushed_up, Sub(variable_bounds.ub, perturbation_ub))

push_variable_to_interior(variable_value, variable_bounds) ==
    LET range == Sub(variable_bounds.ub, variable_bounds.lb)
        perturbation_lb ==
            StdMin(Mul(parameters.push_variable_to_interior_k1, StdMax(One, AbsX(variable_bounds.lb))),
                   Mul(parameters.push_variable_to_interior_k2, range))
        perturbation_ub ==
            StdMin(Mul(parameters.push_variable_to_interior_k1, StdMax(One, AbsX(variable_bounds.ub))),
                   Mul(parameters.push_variable_to_interior_k2, range))
        pushed_up == StdMax(variable_value, Add(variable_bounds.lb, perturbation_lb))
    IN  StdMin(pushed_up, Sub(variable_bounds.ub, perturbation_ub))

\* mutant: a trial step length is used without the test 0 < trial_alpha_xi
primal_fraction_to_boundary_untested(sol, x, tau) ==
    LET n == number_variables
        lower[i \in 0..n] ==
            IF i = 0 THEN One
            ELSE IF i \in lower_bounded_variables /\ Lt(sol[i], Zero)
                 THEN StdMin(lower[i - 1],
                             Div(Mul(Neg(tau), Sub(x[i], get_variable_lower_bound(i))), sol[i]))
                 ELSE lower[i - 1]
        upper[i \in 0..n] ==
            IF i = 0 THEN lower[n]
            ELSE IF i \in upper_bounded_variables /\ Lt(Zero, sol[i])
                 THEN StdMin(upper[i - 1],
                             Div(Mul(Neg(tau), Sub(x[i], get_variable_upper_bound(i))), sol[i]))
                 ELSE upper[i - 1]
    IN  upper[n]

\* mutant: the loop over the upper-bounded variables is missing
primal_fraction_to_boundary_lower_only(sol, x, tau) ==
    LET n == number_variables
        lower[i \in 0..n] ==
            IF i = 0 THEN One
            ELSE IF i \in lower_bounded_variables /\ Lt(sol[i], Zero)
                 THEN LET trial_alpha_xi ==
                              Div(Mul(Neg(tau), Sub(x[i], get_variable_lower_bound(i))), sol[i])
                      IN  IF Lt(Zero, trial_alpha_xi)
                          THEN StdMin(lower[i - 1], trial_alpha_xi)
                          ELSE lower[i - 1]
                 ELSE lower[i - 1]
    IN  lower[n]

primal_fraction_to_boundary(sol, x, tau) ==
    LET n == number_variables
        lower[i \in 0..n] ==
            IF i = 0 THEN One
            ELSE IF i \in lower_bounded_variables /\ Lt(sol[i], Zero)
                 THEN LET trial_alpha_xi ==
                              Div(Mul(Neg(tau), Sub(x[i], get_variable_lower_bound(i))), sol[i])
                      IN  IF Lt(Zero, trial_alpha_xi)
                          THEN StdMin(lower[i - 1], trial_alpha_xi)
                          ELSE lower[i - 1]
                 ELSE lower[i - 1]
        upper[i \in 0..n] ==
            IF i = 0 THEN lower[n]
            ELSE IF i \in upper_bounded_variables /\ Lt(Zero, sol[i])
                 THEN LET trial_alpha_xi ==
                              Div(Mul(Neg(tau), Sub(x[i], get_variable_upper_bound(i))), sol[i])
                      IN  IF Lt(Zero, trial_alpha_xi)
                          THEN StdMin(upper[i - 1], trial_alpha_xi)
                          ELSE upper[i - 1]
                 ELSE upper[i - 1]
    IN  upper[n]

\* the model's objective: f(x) = x_1^2 + x_2 + ... + x_n
evaluate_objective_gradient(x) ==
    [i \in 1..Len(x) |-> IF i = 1 THEN Mul(R(2, 1), x[1]) ELSE One]

\* the Jacobian of the model's constraints
evaluate_constraint_jacobian(x) ==
    [j \in 1..number_constraints |-> [i \in 1..Len(x) |-> One]]

\* options.get_double("barrier_damping_factor")
damping_factor == R(1, 8)

\* mutant: the barrier terms are computed with the barrier parameter of the previous solve
objective_barrier_term_previous_mu(i, x, mu) ==
    LET lower_term ==
            IF is_finite(get_variable_lower_bound(i))
            THEN Add(Mul(Neg(barrier_parameter),
                         Div(One, Sub(x[i], get_variable_lower_bound(i)))),
                     IF ~is_finite(get_variable_upper_bound(i))
                     THEN Mul(damping_factor, barrier_parameter) ELSE Zero)
            ELSE Zero
        upper_term ==
            IF is_finite(get_variable_upper_bound(i))
            THEN Sub(Mul(Neg(barrier_parameter),
                         Div(One, Sub(x[i], get_variable_upper_bound(i)))),
                     IF ~is_finite(get_variable_lower_bound(i))
                     THEN Mul(damping_factor, barrier_parameter) ELSE Zero)
            ELSE Zero
    IN  Add(lower_term, upper_term)

\* the barrier term of variable i in the objective gradient, with its damping
objective_barrier_term(i, x, mu) ==
    LET lower_term ==
            IF is_finite(get_variable_lower_bound(i))
            THEN LET inverse_distance == Div(One, Sub(x[i], get_variable_lower_bound(i)))
                 IN  Add(Mul(Neg(mu), inverse_distance),
                         IF ~is_finite(get_variable_upper_bound(i))
                         THEN Mul(damping_factor, mu) ELSE Zero)
            ELSE Zero
        upper_term ==
            IF is_finite(get_variable_upper_bound(i))
            THEN LET inverse_distance == Div(One, Sub(x[i], get_variable_upper_bound(i)))
                 IN  Sub(Mul(Neg(mu), inverse_distance),
                         IF ~is_finite(get_variable_lower_bound(i))
                         THEN Mul(damping_factor, mu) ELSE Zero)
            ELSE Zero
    IN  Add(lower_term, upper_term)

\* evaluate_functions: barrier objective gradient, constraints and Jacobian at x
evaluate_barrier_functions(x, mu) ==
    [objective_gradient |->
         [i \in 1..number_variables |->
             Add(evaluate_objective_gradient(x)[i], objective_barrier_term(i, x, mu))],
     constraints |-> evaluate_constraints(x),
     constraint_jacobian |-> evaluate_constraint_jacobian(x)]

\* mutant: the right-hand side is not reset before the gradients are accumulated
generate_augmented_rhs_accumulated(previous, objective_gradient, jacobian, constraints, lambda) ==
    LET n == number_variables
        m == number_constraints
        accumulated[j \in 0..m] ==
            IF j = 0 THEN [i \in 1..n |-> Sub(previous[i], objective_gradient[i])]
            ELSE IF lambda[j] # Zero
                 THEN [i \in 1..n |-> Add(accumulated[j - 1][i], Mul(lambda[j], jacobian[j][i]))]
                 ELSE accumulated[j - 1]
    IN  [k \in 1..(n + m) |-> IF k <= n THEN accumulated[m][k] ELSE Neg(constraints[k - n])]

\* the right-hand side: initialize_vector(rhs, 0.), then the objective gradient, then for
\* each constraint the Lagrangian term (skipped for a zero multiplier) and -c_j
generate_augmented_rhs(previous, objective_gradient, jacobian, constraints, lambda) ==
    LET n == number_variables
        m == number_constraints
        accumulated[j \in 0..m] ==
            IF j = 0 THEN [i \in 1..n |-> Sub(Zero, objective_gradient[i])]
            ELSE IF lambda[j] # Zero
                 THEN [i \in 1..n |-> Add(accumulated[j - 1][i], Mul(lambda[j], jacobian[j][i]))]
                 ELSE accumulated[j - 1]
    IN  [k \in 1..(n + m) |-> IF k <= n THEN accumulated[m][k] ELSE Neg(constraints[k - n])]

\* mutant: the constraint block is shifted without being scaled
second_order_correction_rhs_unscaled(previous, primal_step_length, trial_constraints) ==
    [k \in 1..(number_variables + number_constraints) |->
        IF k <= number_variables THEN previous[k]
        ELSE Sub(previous[k], trial_constraints[k - number_variables])]

\* the two loops of compute_second_order_correction over the constraint block
second_order_correction_rhs(previous, primal_step_length, trial_constraints) ==
    [k \in 1..(number_variables + number_constraints) |->
        IF k <= number_variables THEN previous[k]
        ELSE Sub(Mul(previous[k], primal_step_length),
                 trial_constraints[k - number_variables])]

RECURSIVE Power(_, _)
Power(a, k) == IF k = 0 THEN One ELSE Mul(a, Power(a, k - 1))

\* std::pow(barrier_parameter, regularization_exponent)
dual_regularization(mu) == Power(mu, parameters.regularization_exponent)

\* mutant: the two vectors are not reset before the loops
compute_bound_dual_direction_not_reset(sol, x, zL, zU, mu) ==
    [lower |-> [i \in 1..number_variables |->
                   IF i \in lower_bounded_variables
                   THEN LET distance_to_bound == Sub(x[i], get_variable_lower_bound(i))
                        IN  Sub(Div(Sub(mu, Mul(sol[i], zL[i])), distance_to_bound), zL[i])
                   ELSE lower_delta_z[i]],
     upper |-> [i \in 1..number_variables |->
                   IF i \in upper_bounded_variables
                   THEN LET distance_to_bound == Sub(x[i], get_variable_upper_bound(i))
                        IN  Sub(Div(Sub(mu, Mul(sol[i], zU[i])), distance_to_bound), zU[i])
                   ELSE upper_delta_z[i]]]

compute_bound_dual_direction(sol, x, zL, zU, mu) ==
    [lower |-> [i \in 1..number_variables |->
                   IF i \in lower_bounded_variables
                   THEN LET distance_to_bound == Sub(x[i], get_variable_lower_bound(i))
                        IN  Sub(Div(Sub(mu, Mul(sol[i], zL[i])), distance_to_bound), zL[i])
                   ELSE Zero],
     upper |-> [i \in 1..number_variables |->
                   IF i \in upper_bounded_variables
                   THEN LET distance_to_bound == Sub(x[i], get_variable_upper_bound(i))
                        IN  Sub(Div(Sub(mu, Mul(sol[i], zU[i])), distance_to_bound), zU[i])
                   ELSE Zero]]

dual_fraction_to_boundary(ldz, udz, zL, zU, tau) ==
    LET n == number_variables
        lower[i \in 0..n] ==
            IF i = 0 THEN One
            ELSE IF i \in lower_bounded_variables /\ Lt(ldz[i], Zero)
                 THEN LET trial_alpha_zj == Div(Mul(Neg(tau), zL[i]), ldz[i])
                      IN  IF Lt(Zero, trial_alpha_zj)
                          THEN StdMin(lower[i - 1], trial_alpha_zj)
                          ELSE lower[i - 1]
                 ELSE lower[i - 1]
        upper[i \in 0..n] ==
            IF i = 0 THEN lower[n]
            ELSE IF i \in upper_bounded_variables /\ Lt(Zero, udz[i])
                 THEN LET trial_alpha_zj == Div(Mul(Neg(tau), zU[i]), udz[i])
                      IN  IF Lt(Zero, trial_alpha_zj)
                          THEN StdMin(upper[i - 1], trial_alpha_zj)
                          ELSE upper[i - 1]
                 ELSE upper[i - 1]
    IN  upper[n]

\* the assert() closing both fraction-to-boundary functions
InUnitInterval(length) == Lt(Zero, length) /\ Le(length, One)

\* mutant: a sign slip in 1 - mu
fraction_to_boundary_tau_sign_slip(mu) == StdMax(parameters.tau_min, Add(One, mu))

fraction_to_boundary_tau(mu) == StdMax(parameters.tau_min, Sub(One, mu))

generate_primal_dual_direction(sol, x, zL, zU, mu) ==
    LET n == number_variables
        \* retrieve +Delta lambda: the constraint block changes sign
        flipped == [k \in 1..Len(sol) |-> IF k > n THEN Neg(sol[k]) ELSE sol[k]]
        tau == fraction_to_boundary_tau(mu)
        primal_dual_step_length == primal_fraction_to_boundary(flipped, x, tau)
        dz == compute_bound_dual_direction(flipped, x, zL, zU, mu)
        bound_dual_step_length == dual_fraction_to_boundary(dz.lower, dz.upper, zL, zU, tau)
    IN  [solution |-> flipped,
         lower_delta_z |-> dz.lower,
         upper_delta_z |-> dz.upper,
         direction |-> [primals |-> [i \in 1..n |-> flipped[i]],
                        constraints |-> [j \in 1..number_constraints |-> flipped[n + j]],
                        lower_bounds |-> dz.lower,
                        upper_bounds |-> dz.upper,
                        primal_dual_step_length |-> primal_dual_step_length,
                        bound_dual_step_length |-> bound_dual_step_length,
                        \* the status solve() asserts before it generates the direction
                        status |-> "OPTIMAL"],
         assertion |->
             IF ~InUnitInterval(primal_dual_step_length) THEN "primal_fraction_to_boundary"
             ELSE IF \E i \in lower_bounded_variables : ~is_finite(dz.lower[i]) THEN "lower_delta_z"
             ELSE IF \E i \in upper_bounded_variables : ~is_finite(dz.upper[i]) THEN "upper_delta_z"
             ELSE IF ~InUnitInterval(bound_dual_step_length) THEN "dual_fraction_to_boundary"
             ELSE "none"]

\* mutant: the interval of the lower-bound multipliers is used for the upper-bound ones
postprocess_iterate_same_interval(x, zL, zU, mu) ==
    [lower_bounds |-> [i \in 1..number_variables |->
        IF i \in lower_bounded_variables
        THEN LET coefficient == Div(mu, Sub(x[i], get_variable_lower_bound(i)))
                 lb == Div(coefficient, parameters.k_sigma)
                 ub == Mul(coefficient, parameters.k_sigma)
             IN  IF Le(lb, ub) THEN StdMax(StdMin(zL[i], ub), lb) ELSE zL[i]
        ELSE zL[i]],
     upper_bounds |-> [i \in 1..number_variables |->
        IF i \in upper_bounded_variables
        THEN LET coefficient == Div(mu, Sub(x[i], get_variable_upper_bound(i)))
                 lb == Div(coefficient, parameters.k_sigma)
                 ub == Mul(coefficient, parameters.k_sigma)
             IN  IF Le(lb, ub) THEN StdMax(StdMin(zU[i], ub), lb) ELSE zU[i]
        ELSE zU[i]]]

\* Eq. 16 of the Ipopt paper: the bound multipliers after the reset
postprocess_iterate(x, zL, zU, mu) ==
    [lower_bounds |-> [i \in 1..number_variables |->
        IF i \in lower_bounded_variables
        THEN LET coefficient == Div(mu, Sub(x[i], get_variable_lower_bound(i)))
                 lb == Div(coefficient, parameters.k_sigma)
                 ub == Mul(coefficient, parameters.k_sigma)
             IN  IF Le(lb, ub) THEN StdMax(StdMin(zL[i], ub), lb) ELSE zL[i]
        ELSE zL[i]],
     upper_bounds |-> [i \in 1..number_variables |->
        IF i \in upper_bounded_variables
        THEN LET coefficient == Div(mu, Sub(x[i], get_variable_upper_bound(i)))
                 lb == Mul(coefficient, parameters.k_sigma)
                 ub == Div(coefficient, parameters.k_sigma)
             IN  IF Le(lb, ub) THEN StdMax(StdMin(zU[i], ub), lb) ELSE zU[i]
        ELSE zU[i]]]

\* mutant: the barrier parameter is saved after it has been raised
initialize_feasibility_problem_saves_late(mu, constraints) ==
    [solving_feasibility_problem |-> TRUE,
     previous_barrier_parameter |-> StdMax(mu, norm_inf(constraints)),
     barrier_parameter |-> StdMax(mu, norm_inf(constraints)),
     subproblem_definition_changed |-> TRUE]

\* mutant: the barrier parameter is replaced by the norm of the constraints
initialize_feasibility_problem_without_max(mu, constraints) ==
    [solving_feasibility_problem |-> TRUE,
     previous_barrier_parameter |-> mu,
     barrier_parameter |-> norm_inf(constraints),
     subproblem_definition_changed |-> TRUE]

\* the assignments of initialize_feasibility_problem()
initialize_feasibility_problem(mu, constraints) ==
    [solving_feasibility_problem |-> TRUE,
     previous_barrier_parameter |-> mu,
     barrier_parameter |-> StdMax(mu, norm_inf(constraints)),
     subproblem_definition_changed |-> TRUE]

\* mutant: the flag is left set
exit_feasibility_problem_keeps_flag(previous) ==
    [barrier_parameter |-> previous,
     solving_feasibility_problem |-> TRUE]

\* the assignments of exit_feasibility_problem() once its assertion has passed
exit_feasibility_problem(previous) ==
    [barrier_parameter |-> previous,
     solving_feasibility_problem |-> FALSE]

(***************************************************************************)
(* Inputs.                                                                 *)
(***************************************************************************)
MaxSolves == 2

\* at most MaxCorrections calls of compute_second_order_correction are followed
MaxCorrections == 1

Half == R(1, 2)

ProblemChoices ==
    { [variable_lower_bounds |-> <<Zero, R(-1, 1)>>, variable_upper_bounds |-> <<R(2, 1), One>>,
       number_constraints |-> 1, inequality_constraints |-> {}, slacks |-> {}],
      [variable_lower_bounds |-> <<Zero, NegInf>>, variable_upper_bounds |-> <<PosInf, One>>,
       number_constraints |-> 1, inequality_constraints |-> {}, slacks |-> {}],
      [variable_lower_bounds |-> <<One, Zero>>, variable_upper_bounds |-> <<R(3, 1), R(4, 1)>>,
       number_constraints |-> 1, inequality_constraints |-> {}, slacks |-> {<<1, 2>>}],
      [variable_lower_bounds |-> <<Zero, Zero>>, variable_upper_bounds |-> <<One, One>>,
       number_constraints |-> 1, inequality_constraints |-> {1}, slacks |-> {}] }

ParameterChoices ==
    { [tau_min |-> Half, k_sigma |-> ks, push_variable_to_interior_k1 |-> R(1, 4),
       push_variable_to_interior_k2 |-> R(1, 4), default_multiplier |-> One,
       barrier_initial_parameter |-> One, regularization_exponent |-> 2,
       small_direction_factor |-> R(8, 1)] : ks \in {One, R(2, 1)} }

\* problems whose variables all have finite bounds lb < ub
BoundedProblemChoices ==
    { [variable_lower_bounds |-> <<Zero, R(-1, 1)>>, variable_upper_bounds |-> <<R(2, 1), One>>,
       number_constraints |-> 1, inequality_constraints |-> {}, slacks |-> {}],
      [variable_lower_bounds |-> <<Zero, R(-3, 1)>>, variable_upper_bounds |-> <<Half, R(-1, 1)>>,
       number_constraints |-> 1, inequality_constraints |-> {}, slacks |-> {}],
      [variable_lower_bounds |-> <<One, Zero>>, variable_upper_bounds |-> <<R(3, 1), R(4, 1)>>,
       number_constraints |-> 1, inequality_constraints |-> {}, slacks |-> {<<1, 2>>}],
      [variable_lower_bounds |-> <<R(-4, 1), R(2, 1)>>, variable_upper_bounds |-> <<R(4, 1), R(3, 1)>>,
       number_constraints |-> 1, inequality_constraints |-> {}, slacks |-> {}] }

\* k1 > 0 and 0 < k2 < 1/2
PushParameterChoices ==
    { [tau_min |-> Half, k_sigma |-> One, push_variable_to_interior_k1 |-> k1,
       push_variable_to_interior_k2 |-> k2, default_multiplier |-> One,
       barrier_initial_parameter |-> One, regularization_exponent |-> 2,
       small_direction_factor |-> R(8, 1)] : k1 \in {R(1, 4), R(2, 1)}, k2 \in {R(1, 4), R(2, 5)} }

\* initial points below, inside and above the bounds
PushPoints == { <<a, b>> : a, b \in {R(-5, 1), Half, R(5, 2), R(5, 1)} }

\* the user's initial points
InitialPoints == { <<R(-1, 1), Half>>, <<Half, R(3, 1)>>, <<R(3, 1), R(-1, 1)>> }

\* the values the model follows: numerators and denominators up to MaxMagnitude
MaxMagnitude == 400

Representable(v) == AbsInt(v[1]) <= MaxMagnitude /\ v[2] <= MaxMagnitude

AllRepresentable(seq) == \A k \in DOMAIN seq : Representable(seq[k])

\* what the symmetric indefinite solver may return: (dx_1, dx_2, -dlambda_1)
AugmentedSolutions ==
    { <<R(-2, 1), One, Zero>>, <<One, R(-2, 1), One>>, <<R(-1, 2), R(3, 1), R(-1, 1)>> }

\* what Preprocessing::compute_least_square_multipliers may return
LeastSquareMultipliers == {One}

\* BarrierParameterUpdateStrategy::update_barrier_parameter: mu is kept or decreased
update_barrier_parameter_strategy(mu) == {mu, Mul(mu, R(1, 4))}

NoTrialIterate ==
    [primals |-> <<>>, lower_bounds |-> <<>>, upper_bounds |-> <<>>,
     primal_step_length |-> Zero]

EmptyDirection ==
    [primals |-> <<>>, constraints |-> <<>>, lower_bounds |-> <<>>, upper_bounds |-> <<>>,
     primal_dual_step_length |-> Zero, bound_dual_step_length |-> Zero,
     status |-> "OPTIMAL"]

(***************************************************************************)
(* The interior-point subproblem: construction and operations.             *)
(***************************************************************************)
\* the flag is not set by the constructor's initialiser list: the class declares it
\* with the default value false
solving_feasibility_problem_default == FALSE

ConstructedWith(prob, params, x0, flags) ==
    /\ pc = "constructed"
    /\ first_iterate_flags = flags
    /\ evaluations_objective_gradient = [i \in 1..Len(x0) |-> Zero]
    /\ rhs = [k \in 1..(Len(x0) + prob.number_constraints) |-> Zero]
    /\ dual_regularization_parameter = Zero
    /\ trial_iterate = NoTrialIterate
    /\ assertion_failed = "none"
    /\ last = "constructor"
    /\ problem = prob
    /\ parameters = params
    /\ primals = x0
    /\ lower_bounds = [i \in 1..Len(x0) |-> Zero]
    /\ upper_bounds = [i \in 1..Len(x0) |-> Zero]
    /\ multipliers_constraints = [j \in 1..prob.number_constraints |-> Zero]
    /\ barrier_parameter = params.barrier_initial_parameter
    /\ previous_barrier_parameter = params.barrier_initial_parameter
    /\ solving_feasibility_problem = solving_feasibility_problem_default
    /\ subproblem_definition_changed = FALSE
    /\ evaluations_constraints = [j \in 1..prob.number_constraints |-> Zero]
    /\ solution = [k \in 1..(Len(x0) + prob.number_constraints) |-> Zero]
    /\ lower_delta_z = [i \in 1..Len(x0) |-> Zero]
    /\ upper_delta_z = [i \in 1..Len(x0) |-> Zero]
    /\ direction = EmptyDirection
    /\ number_subproblems_solved = 0
    /\ history = [mu_before_entry |-> params.barrier_initial_parameter,
                  solved_at_entry |-> 0,
                  mu_before_exit |-> params.barrier_initial_parameter,
                  corrections |-> 0]

\* an iterate that has just been created: nothing has been evaluated
FreshFlags ==
    [is_objective_computed |-> FALSE, is_objective_gradient_computed |-> FALSE,
     are_constraints_computed |-> FALSE, is_constraint_jacobian_computed |-> FALSE]

Constructed(prob, params, x0) == ConstructedWith(prob, params, x0, FreshFlags)

\* the flags of the first iterate when initialize() is called: nothing evaluated, the
\* objective evaluated, everything evaluated
FlagChoices ==
    { FreshFlags,
      [FreshFlags EXCEPT !.is_objective_computed = TRUE],
      [is_objective_computed |-> TRUE, is_objective_gradient_computed |-> TRUE,
       are_constraints_computed |-> TRUE, is_constraint_jacobian_computed |-> TRUE] }

\* mutant: the assertion is compiled out
equality_constrained_unchecked(prob) == TRUE

\* assert(problem.inequality_constraints.empty())
equality_constrained(prob) == prob.inequality_constraints = {}

\* the three assignments that close the changes of the primals in initialize()
invalidate_evaluations(flags) ==
    [flags EXCEPT !.is_objective_gradient_computed = FALSE,
                  !.are_constraints_computed = FALSE,
                  !.is_constraint_jacobian_computed = FALSE]

\* std::numeric_limits<double>::epsilon()
machine_epsilon == R(1, 2 ^ (SignificandBits - 1))

\* Section 3.9 of the Ipopt paper: the largest dx_i / (1 + |x_i|) in absolute value is
\* below small_direction_factor * machine_epsilon
is_small_step(x, dir) ==
    Lt(norm_inf([i \in 1..number_variables |-> Div(dir.primals[i], Add(One, AbsX(x[i])))]),
       Mul(parameters.small_direction_factor, machine_epsilon))

\* the bounds of the problem after relax_variable_bounds(): both loops test the distance
\* of the current point to the bound, and the body of both tests is empty
relax_variable_bounds(prob, x, mu) ==
    [variable_lower_bounds |->
         [i \in 1..Len(x) |->
             IF /\ is_finite(prob.variable_lower_bounds[i])
                /\ Lt(Sub(x[i], prob.variable_lower_bounds[i]), Mul(machine_epsilon, mu))
             THEN prob.variable_lower_bounds[i]
             ELSE prob.variable_lower_bounds[i]],
     variable_upper_bounds |->
         [i \in 1..Len(x) |->
             IF /\ is_finite(prob.variable_upper_bounds[i])
                /\ Lt(Sub(prob.variable_upper_bounds[i], x[i]), Mul(machine_epsilon, mu))
             THEN prob.variable_upper_bounds[i]
             ELSE prob.variable_upper_bounds[i]]]

Abort(name, op) ==
    /\ pc' = "aborted"
    /\ assertion_failed' = name
    /\ last' = op

initialize ==
    /\ UNCHANGED outside_interior_point
    /\ UNCHANGED augmented_vars
    /\ pc = "constructed"
    /\ IF ~equality_constrained(problem)
       THEN /\ Abort("inequality_constraints", "initialize")
            /\ UNCHANGED <<first_iterate_flags, problem, parameters, primals, lower_bounds, upper_bounds,
                           multipliers_constraints, barrier_parameter,
                           previous_barrier_parameter, solving_feasibility_problem,
                           subproblem_definition_changed, evaluations_constraints, solution,
                           lower_delta_z, upper_delta_z, direction,
                           number_subproblems_solved, history>>
       ELSE LET constraints == evaluate_constraints(primals)
                bounds(i) == [lb |-> get_variable_lower_bound(i), ub |-> get_variable_upper_bound(i)]
                pushed == [i \in 1..number_variables |-> push_variable_to_interior(primals[i], bounds(i))]
                with_slacks == [i \in 1..number_variables |->
                    IF \E s \in problem.slacks : s[2] = i
                    THEN LET s == CHOOSE s \in problem.slacks : s[2] = i
                         IN  push_variable_to_interior(constraints[s[1]], bounds(i))
                    ELSE pushed[i]]
            IN  /\ primals' = with_slacks
                /\ lower_bounds' = [i \in 1..number_variables |->
                       IF i \in lower_bounded_variables THEN parameters.default_multiplier
                       ELSE lower_bounds[i]]
                /\ upper_bounds' = [i \in 1..number_variables |->
                       IF i \in upper_bounded_variables THEN Neg(parameters.default_multiplier)
                       ELSE upper_bounds[i]]
                /\ IF number_constraints > 0
                   THEN \E lsq \in LeastSquareMultipliers :
                            multipliers_constraints' = [j \in 1..number_constraints |-> lsq]
                   ELSE UNCHANGED multipliers_constraints
                /\ first_iterate_flags' = invalidate_evaluations(first_iterate_flags)
                /\ pc' = "ready"
                /\ last' = "initialize"
                /\ UNCHANGED <<assertion_failed, problem, parameters, barrier_parameter,
                               previous_barrier_parameter, solving_feasibility_problem,
                               subproblem_definition_changed, evaluations_constraints, solution,
                               lower_delta_z, upper_delta_z, direction,
                               number_subproblems_solved, history>>

solve ==
    /\ UNCHANGED outside_interior_point
    /\ pc = "ready"
    /\ number_subproblems_solved - history.corrections < MaxSolves
    /\ UNCHANGED first_iterate_flags
    /\ IF ~equality_constrained(problem)
       THEN /\ Abort("inequality_constraints", "solve")
            /\ UNCHANGED augmented_vars
            /\ UNCHANGED <<problem, parameters, primals, lower_bounds, upper_bounds,
                           multipliers_constraints, barrier_parameter,
                           previous_barrier_parameter, solving_feasibility_problem,
                           subproblem_definition_changed, evaluations_constraints, solution,
                           lower_delta_z, upper_delta_z, direction,
                           number_subproblems_solved, history>>
       ELSE \E mu \in update_barrier_parameter_strategy(barrier_parameter),
               sol \in AugmentedSolutions :
            \E gen \in {generate_primal_dual_direction(sol, primals, lower_bounds, upper_bounds, mu)} :
                \* update_barrier_parameter
                /\ barrier_parameter' = mu
                /\ subproblem_definition_changed' =
                       (subproblem_definition_changed \/ mu # barrier_parameter)
                \* relax_variable_bounds
                /\ \E relaxed \in {relax_variable_bounds(problem, primals, mu)} :
                       problem' = [problem EXCEPT
                           !.variable_lower_bounds = relaxed.variable_lower_bounds,
                           !.variable_upper_bounds = relaxed.variable_upper_bounds]
                \* evaluate_functions, then assemble_augmented_system
                /\ \E evaluated \in {evaluate_barrier_functions(primals, mu)} :
                       /\ evaluations_objective_gradient' = evaluated.objective_gradient
                       /\ evaluations_constraints' = evaluated.constraints
                       /\ rhs' = generate_augmented_rhs(rhs, evaluated.objective_gradient,
                                                        evaluated.constraint_jacobian,
                                                        evaluated.constraints,
                                                        multipliers_constraints)
                /\ dual_regularization_parameter' = dual_regularization(mu)
                /\ UNCHANGED trial_iterate
                \* augmented_system.solve, then generate_primal_dual_direction
                /\ number_subproblems_solved' = number_subproblems_solved + 1
                /\ solution' = gen.solution
                /\ IF gen.assertion = "none"
                   THEN /\ AllRepresentable(gen.lower_delta_z)
                        /\ AllRepresentable(gen.upper_delta_z)
                        /\ Representable(gen.direction.primal_dual_step_length)
                        /\ Representable(gen.direction.bound_dual_step_length)
                        /\ lower_delta_z' = gen.lower_delta_z
                        /\ upper_delta_z' = gen.upper_delta_z
                        /\ direction' = gen.direction
                        /\ pc' = "solved"
                        /\ last' = "solve"
                        /\ UNCHANGED assertion_failed
                   ELSE /\ Abort(gen.assertion, "solve")
                        /\ UNCHANGED <<lower_delta_z, upper_delta_z, direction>>
                /\ UNCHANGED <<parameters, primals, lower_bounds, upper_bounds,
                               multipliers_constraints, previous_barrier_parameter,
                               solving_feasibility_problem, history>>

\* the trial iterates the driver can hand to compute_second_order_correction: the
\* current iterate moved along the direction by the step length that was rejected
RejectedStepLengths(dir) ==
    {dir.primal_dual_step_length, Mul(Half, dir.primal_dual_step_length)}

RejectedTrialIterate(dir, primal_step_length) ==
    [primals |-> [i \in 1..number_variables |->
                     Add(primals[i], Mul(primal_step_length, dir.primals[i]))],
     lower_bounds |-> [i \in 1..number_variables |->
                     Add(lower_bounds[i], Mul(dir.bound_dual_step_length, dir.lower_bounds[i]))],
     upper_bounds |-> [i \in 1..number_variables |->
                     Add(upper_bounds[i], Mul(dir.bound_dual_step_length, dir.upper_bounds[i]))],
     primal_step_length |-> primal_step_length]

compute_second_order_correction ==
    /\ UNCHANGED outside_interior_point
    /\ UNCHANGED first_iterate_flags
    /\ pc = "solved"
    /\ history.corrections < MaxCorrections
    /\ history' = [history EXCEPT !.corrections = @ + 1]
    /\ \E primal_step_length \in RejectedStepLengths(direction), sol \in AugmentedSolutions :
        \E trial \in {RejectedTrialIterate(direction, primal_step_length)} :
        \E gen \in {generate_primal_dual_direction(sol, trial.primals, trial.lower_bounds,
                                                   trial.upper_bounds, barrier_parameter)} :
            /\ AllRepresentable(trial.primals)
            /\ AllRepresentable(trial.lower_bounds) /\ AllRepresentable(trial.upper_bounds)
            /\ trial_iterate' = trial
            \* scale, evaluate the constraints at the trial iterate, shift
            /\ evaluations_constraints' = evaluate_constraints(trial.primals)
            /\ rhs' = second_order_correction_rhs(rhs, primal_step_length,
                                                  evaluate_constraints(trial.primals))
            \* augmented_system.solve, then generate_primal_dual_direction
            /\ number_subproblems_solved' = number_subproblems_solved + 1
            /\ solution' = gen.solution
            /\ IF gen.assertion = "none"
               THEN /\ AllRepresentable(gen.lower_delta_z)
                    /\ AllRepresentable(gen.upper_delta_z)
                    /\ Representable(gen.direction.primal_dual_step_length)
                    /\ Representable(gen.direction.bound_dual_step_length)
                    /\ lower_delta_z' = gen.lower_delta_z
                    /\ upper_delta_z' = gen.upper_delta_z
                    /\ direction' = gen.direction
                    /\ pc' = "corrected"
                    /\ last' = "compute_second_order_correction"
                    /\ UNCHANGED assertion_failed
               ELSE /\ Abort(gen.assertion, "compute_second_order_correction")
                    /\ UNCHANGED <<lower_delta_z, upper_delta_z, direction>>
    /\ UNCHANGED <<problem, parameters, primals, lower_bounds, upper_bounds,
                   multipliers_constraints, barrier_parameter, previous_barrier_parameter,
                   solving_feasibility_problem, subproblem_definition_changed,
                   evaluations_objective_gradient, dual_regularization_parameter>>

\* the driver accepts the corrected step: the trial iterate moves along the direction
\* that was generated against it
assemble_corrected_iterate ==
    /\ UNCHANGED outside_interior_point
    /\ UNCHANGED first_iterate_flags
    /\ UNCHANGED augmented_vars
    /\ pc = "corrected"
    /\ primals' = [i \in 1..number_variables |->
           Add(trial_iterate.primals[i],
               Mul(direction.primal_dual_step_length, direction.primals[i]))]
    /\ multipliers_constraints' = [j \in 1..number_constraints |->
           Add(multipliers_constraints[j],
               Mul(direction.primal_dual_step_length, direction.constraints[j]))]
    /\ lower_bounds' = [i \in 1..number_variables |->
           Add(trial_iterate.lower_bounds[i],
               Mul(direction.bound_dual_step_length, direction.lower_bounds[i]))]
    /\ upper_bounds' = [i \in 1..number_variables |->
           Add(trial_iterate.upper_bounds[i],
               Mul(direction.bound_dual_step_length, direction.upper_bounds[i]))]
    /\ AllRepresentable(primals') /\ AllRepresentable(multipliers_constraints')
    /\ AllRepresentable(lower_bounds') /\ AllRepresentable(upper_bounds')
    /\ pc' = "trial"
    /\ last' = "assemble_corrected_iterate"
    /\ UNCHANGED <<assertion_failed, problem, parameters, barrier_parameter,
                   previous_barrier_parameter, solving_feasibility_problem,
                   subproblem_definition_changed, evaluations_constraints, solution,
                   lower_delta_z, upper_delta_z, direction, number_subproblems_solved,
                   history>>

\* the driver's update of the iterate along the direction
assemble_trial_iterate ==
    /\ UNCHANGED outside_interior_point
    /\ UNCHANGED first_iterate_flags
    /\ UNCHANGED augmented_vars
    /\ pc = "solved"
    /\ primals' = [i \in 1..number_variables |->
           Add(primals[i], Mul(direction.primal_dual_step_length, direction.primals[i]))]
    /\ multipliers_constraints' = [j \in 1..number_constraints |->
           Add(multipliers_constraints[j],
               Mul(direction.primal_dual_step_length, direction.constraints[j]))]
    /\ lower_bounds' = [i \in 1..number_variables |->
           Add(lower_bounds[i], Mul(direction.bound_dual_step_length, direction.lower_bounds[i]))]
    /\ upper_bounds' = [i \in 1..number_variables |->
           Add(upper_bounds[i], Mul(direction.bound_dual_step_length, direction.upper_bounds[i]))]
    /\ AllRepresentable(primals') /\ AllRepresentable(multipliers_constraints')
    /\ AllRepresentable(lower_bounds') /\ AllRepresentable(upper_bounds')
    /\ pc' = "trial"
    /\ last' = "assemble_trial_iterate"
    /\ UNCHANGED <<assertion_failed, problem, parameters, barrier_parameter,
                   previous_barrier_parameter, solving_feasibility_problem,
                   subproblem_definition_changed, evaluations_constraints, solution,
                   lower_delta_z, upper_delta_z, direction, number_subproblems_solved,
                   history>>

PostprocessIterate ==
    /\ UNCHANGED outside_interior_point
    /\ UNCHANGED first_iterate_flags
    /\ UNCHANGED augmented_vars
    /\ pc = "trial"
    /\ \E reset \in {postprocess_iterate(primals, lower_bounds, upper_bounds, barrier_parameter)} :
           /\ lower_bounds' = reset.lower_bounds
           /\ upper_bounds' = reset.upper_bounds
    /\ AllRepresentable(lower_bounds') /\ AllRepresentable(upper_bounds')
    /\ pc' = "ready"
    /\ last' = "postprocess_iterate"
    /\ UNCHANGED <<assertion_failed, problem, parameters, primals, multipliers_constraints,
                   barrier_parameter, previous_barrier_parameter,
                   solving_feasibility_problem, subproblem_definition_changed,
                   evaluations_constraints, solution, lower_delta_z, upper_delta_z,
                   direction, number_subproblems_solved, history>>

InitializeFeasibilityProblem ==
    /\ UNCHANGED outside_interior_point
    /\ UNCHANGED first_iterate_flags
    /\ UNCHANGED augmented_vars
    \* the driver switches to the feasibility problem after a solve at the current
    \* iterate, from the optimality phase, and then solves again
    /\ pc = "solved"
    /\ ~solving_feasibility_problem
    /\ \E entry \in {initialize_feasibility_problem(barrier_parameter, evaluations_constraints)} :
           /\ solving_feasibility_problem' = entry.solving_feasibility_problem
           /\ previous_barrier_parameter' = entry.previous_barrier_parameter
           /\ barrier_parameter' = entry.barrier_parameter
           /\ subproblem_definition_changed' = entry.subproblem_definition_changed
    /\ history' = [history EXCEPT !.mu_before_entry = barrier_parameter,
                                  !.solved_at_entry = number_subproblems_solved]
    /\ pc' = "ready"
    /\ last' = "initialize_feasibility_problem"
    /\ UNCHANGED <<assertion_failed, problem, parameters, primals, lower_bounds, upper_bounds,
                   multipliers_constraints, evaluations_constraints, solution, lower_delta_z,
                   upper_delta_z, direction, number_subproblems_solved>>

ExitFeasibilityProblem ==
    /\ UNCHANGED outside_interior_point
    /\ UNCHANGED first_iterate_flags
    /\ UNCHANGED augmented_vars
    /\ pc = "ready"
    /\ IF ~solving_feasibility_problem
       THEN /\ Abort("solving_feasibility_problem", "exit_feasibility_problem")
            /\ UNCHANGED <<problem, parameters, primals, lower_bounds, upper_bounds,
                           multipliers_constraints, barrier_parameter,
                           previous_barrier_parameter, solving_feasibility_problem,
                           subproblem_definition_changed, evaluations_constraints, solution,
                           lower_delta_z, upper_delta_z, direction,
                           number_subproblems_solved, history>>
       ELSE /\ \E exit \in {exit_feasibility_problem(previous_barrier_parameter)} :
                   /\ barrier_parameter' = exit.barrier_parameter
                   /\ solving_feasibility_problem' = exit.solving_feasibility_problem
            \* compute_least_square_multipliers
            /\ \E lsq \in LeastSquareMultipliers :
                   multipliers_constraints' = [j \in 1..number_constraints |-> lsq]
            /\ history' = [history EXCEPT !.mu_before_exit = barrier_parameter]
            /\ last' = "exit_feasibility_problem"
            /\ UNCHANGED <<pc, assertion_failed, problem, parameters, primals, lower_bounds,
                           upper_bounds, previous_barrier_parameter,
                           subproblem_definition_changed, evaluations_constraints, solution,
                           lower_delta_z, upper_delta_z, direction,
                           number_subproblems_solved>>

(***************************************************************************)
(* Active-set methods.  Indices are 0-based as in the source: a vector is  *)
(* a function on 0..size-1, an index set a set of naturals.                *)
(***************************************************************************)
EmptyVector == <<>>

\* number of entries of a vector
size(v) == Cardinality(DOMAIN v)

\* this->bounds of the subproblem, copied from the problem by the constructor
bounds == original_problem.variables_bounds

\* mutant: the lower bound ignores the trust region
generate_variables_bounds_without_radius(x, radius) ==
    [i \in DOMAIN x |->
        [lb |-> Sub(bounds[i].lb, x[i]),
         ub |-> StdMin(radius, Sub(bounds[i].ub, x[i]))]]

\* bounds of the displacement intersected with the trust region
generate_variables_bounds_(x, radius) ==
    [i \in DOMAIN x |->
        [lb |-> StdMax(Neg(radius), Sub(bounds[i].lb, x[i])),
         ub |-> StdMin(radius, Sub(bounds[i].ub, x[i]))]]

\* mutant: the two maps are filled from the wrong bounds
RECURSIVE generate_elastic_variables_swapped_from(_, _, _, _)
generate_elastic_variables_swapped_from(prob, j, elastic_index, elastic) ==
    IF j >= prob.number_constraints THEN elastic
    ELSE LET has_lower == Lt(prob.constraint_bounds[j].ub, PosInf)
             has_upper == Lt(NegInf, prob.constraint_bounds[j].lb)
             negative == IF has_lower
                         THEN (j :> elastic_index) @@ elastic.negative
                         ELSE elastic.negative
             index_after_negative == IF has_lower THEN elastic_index + 1 ELSE elastic_index
             positive == IF has_upper
                         THEN (j :> index_after_negative) @@ elastic.positive
                         ELSE elastic.positive
             index_after_positive == IF has_upper THEN index_after_negative + 1
                                     ELSE index_after_negative
         IN  generate_elastic_variables_swapped_from(prob, j + 1, index_after_positive,
                                                     [positive |-> positive, negative |-> negative])

\* mutant: elastic_index is not advanced after the negative part
RECURSIVE generate_elastic_variables_shared_index_from(_, _, _, _)
generate_elastic_variables_shared_index_from(prob, j, elastic_index, elastic) ==
    IF j >= prob.number_constraints THEN elastic
    ELSE LET has_lower == Lt(NegInf, prob.constraint_bounds[j].lb)
             has_upper == Lt(prob.constraint_bounds[j].ub, PosInf)
             negative == IF has_lower
                         THEN (j :> elastic_index) @@ elastic.negative
                         ELSE elastic.negative
             positive == IF has_upper
                         THEN (j :> elastic_index) @@ elastic.positive
                         ELSE elastic.positive
             index_after_positive == IF has_upper THEN elastic_index + 1 ELSE elastic_index
         IN  generate_elastic_variables_shared_index_from(prob, j + 1, index_after_positive,
                                                          [positive |-> positive, negative |-> negative])

\* the loop of generate_elastic_variables_ from constraint j on
RECURSIVE generate_elastic_variables_from(_, _, _, _)
generate_elastic_variables_from(prob, j, elastic_index, elastic) ==
    IF j >= prob.number_constraints THEN elastic
    ELSE LET has_lower == Lt(NegInf, prob.constraint_bounds[j].lb)
             has_upper == Lt(prob.constraint_bounds[j].ub, PosInf)
             negative == IF has_lower
                         THEN (j :> elastic_index) @@ elastic.negative
                         ELSE elastic.negative
             index_after_negative == IF has_lower THEN elastic_index + 1 ELSE elastic_index
             positive == IF has_upper
                         THEN (j :> index_after_negative) @@ elastic.positive
                         ELSE elastic.positive
             index_after_positive == IF has_upper THEN index_after_negative + 1
                                     ELSE index_after_negative
         IN  generate_elastic_variables_from(prob, j + 1, index_after_positive,
                                             [positive |-> positive, negative |-> negative])

generate_elastic_variables_(prob, elastic) ==
    generate_elastic_variables_from(prob, 0, prob.number_variables, elastic)

\* the l1-relaxed problem: the original variables followed by the elastic ones
get_number_original_variables == original_problem.number_variables

relaxed_number_variables ==
    original_problem.number_variables + size(elastic_variables.positive)
                                      + size(elastic_variables.negative)

\* every elastic variable is nonnegative
variable_lower_bound(i) ==
    IF i < get_number_original_variables THEN original_problem.variables_bounds[i].lb ELSE Zero

variable_upper_bound(i) ==
    IF i < get_number_original_variables THEN original_problem.variables_bounds[i].ub ELSE PosInf

\* mutant: the distance to the lower bound is taken with the wrong sign
set_direction_bounds_distance(x, radius) ==
    [lower |-> [i \in 0..(relaxed_number_variables - 1) |->
                    IF i < get_number_original_variables
                    THEN StdMax(Neg(radius), Sub(x[i], variable_lower_bound(i)))
                    ELSE Sub(x[i], variable_lower_bound(i))],
     upper |-> [i \in 0..(relaxed_number_variables - 1) |->
                    IF i < get_number_original_variables
                    THEN StdMin(radius, Sub(variable_upper_bound(i), x[i]))
                    ELSE Sub(variable_upper_bound(i), x[i])]]

\* mutant: the trust region is applied to every variable
set_direction_bounds_all_in_trust_region(x, radius) ==
    [lower |-> [i \in 0..(relaxed_number_variables - 1) |->
                    StdMax(Neg(radius), Sub(variable_lower_bound(i), x[i]))],
     upper |-> [i \in 0..(relaxed_number_variables - 1) |->
                    StdMin(radius, Sub(variable_upper_bound(i), x[i]))]]

set_direction_bounds(x, radius) ==
    [lower |-> [i \in 0..(relaxed_number_variables - 1) |->
                    IF i < get_number_original_variables
                    THEN StdMax(Neg(radius), Sub(variable_lower_bound(i), x[i]))
                    ELSE Sub(variable_lower_bound(i), x[i])],
     upper |-> [i \in 0..(relaxed_number_variables - 1) |->
                    IF i < get_number_original_variables
                    THEN StdMin(radius, Sub(variable_upper_bound(i), x[i]))
                    ELSE Sub(variable_upper_bound(i), x[i])]]

\* mutant: the elastic variables are erased from at_lower_bound only
remove_elastic_variables_lower_only(prob, dir) ==
    LET extra == {i \in 0..(size(dir.x) - 1) : prob.number_variables <= i}
    IN  [at_lower_bound |-> dir.active_set.bounds.at_lower_bound \ extra,
         at_upper_bound |-> dir.active_set.bounds.at_upper_bound]

\* first loop of recover_l1qp_active_set_: remove extra variables p and n
remove_elastic_variables(prob, dir) ==
    LET extra == {i \in 0..(size(dir.x) - 1) : prob.number_variables <= i}
    IN  [at_lower_bound |-> dir.active_set.bounds.at_lower_bound \ extra,
         at_upper_bound |-> dir.active_set.bounds.at_upper_bound \ extra]

\* mutant: the violation is taken as p - n
constraint_violation_difference(dir, elastic, j) ==
    LET with_positive == IF j \in DOMAIN elastic.positive
                         THEN Add(Zero, dir.x[elastic.positive[j]])
                         ELSE Zero
    IN  IF j \in DOMAIN elastic.negative
        THEN Sub(with_positive, dir.x[elastic.negative[j]])
        ELSE with_positive

\* the two try blocks: .at(j) throws when constraint j has no such elastic variable
constraint_violation(dir, elastic, j) ==
    LET with_positive == IF j \in DOMAIN elastic.positive
                         THEN Add(Zero, dir.x[elastic.positive[j]])
                         ELSE Zero
    IN  IF j \in DOMAIN elastic.negative
        THEN Add(with_positive, dir.x[elastic.negative[j]])
        ELSE with_positive

recover_l1qp_active_set_(prob, dir, elastic) ==
    LET relaxed == {j \in 0..(size(dir.multipliers.constraints) - 1) :
                        Lt(Zero, constraint_violation(dir, elastic, j))}
    IN  [dir EXCEPT !.active_set =
            [bounds |-> remove_elastic_variables(prob, dir),
             constraints |->
                [at_lower_bound |-> dir.active_set.constraints.at_lower_bound \ relaxed,
                 at_upper_bound |-> dir.active_set.constraints.at_upper_bound \ relaxed]]]

(***************************************************************************)
(* Inputs of the active-set methods.                                       *)
(***************************************************************************)
Interval(l, u) == [lb |-> l, ub |-> u]

ActiveSetProblems ==
    { [number_variables |-> 1, number_constraints |-> 2, objective_sign |-> One,
       variables_bounds |-> (0 :> Interval(Zero, R(2, 1))),
       constraint_bounds |-> (0 :> Interval(R(-1, 1), One)) @@ (1 :> Interval(NegInf, Zero))],
      [number_variables |-> 2, number_constraints |-> 1, objective_sign |-> R(-1, 1),
       variables_bounds |-> (0 :> Interval(NegInf, One)) @@ (1 :> Interval(R(-1, 1), PosInf)),
       constraint_bounds |-> (0 :> Interval(Zero, Zero))],
      [number_variables |-> 1, number_constraints |-> 2, objective_sign |-> One,
       variables_bounds |-> (0 :> Interval(NegInf, PosInf)),
       constraint_bounds |-> (0 :> Interval(One, PosInf)) @@ (1 :> Interval(NegInf, PosInf))] }

TrustRegionRadii == {Zero, Half, R(2, 1), PosInf}

OriginalValues == {Zero, R(7, 4)}

ElasticValues == {Zero, One}

EmptyActiveSet ==
    [bounds |-> [at_lower_bound |-> {}, at_upper_bound |-> {}],
     constraints |-> [at_lower_bound |-> {}, at_upper_bound |-> {}]]

EmptyElasticVariables == [positive |-> EmptyVector, negative |-> EmptyVector]

NoDirection == [x |-> EmptyVector, multipliers |-> [constraints |-> EmptyVector],
                active_set |-> EmptyActiveSet]

\* index sets a QP solver may report for the bounds of number variables
BoundIndexSets(number) == { {}, {0, number - 1}, 0..(number - 1) }

(***************************************************************************)
(* Operations of the active-set methods.                                   *)
(***************************************************************************)
ActiveSetIdle ==
    /\ active_set_pc = "idle"
    /\ original_problem = CHOOSE prob \in ActiveSetProblems : prob.number_variables = 2
    /\ trust_region_radius = PosInf
    /\ current_iterate_x = EmptyVector
    /\ variables_bounds = EmptyVector
    /\ elastic_variables = EmptyElasticVariables
    /\ relaxed_primals = EmptyVector
    /\ direction_lower_bounds = EmptyVector
    /\ direction_upper_bounds = EmptyVector
    /\ l1qp_direction = NoDirection
    /\ solver_active_set = EmptyActiveSet

ActiveSetConstructed(prob, radius, value) ==
    /\ active_set_pc = "constructed"
    /\ original_problem = prob
    /\ trust_region_radius = radius
    /\ current_iterate_x = [i \in 0..(prob.number_variables - 1) |-> value]
    /\ variables_bounds = EmptyVector
    /\ elastic_variables = EmptyElasticVariables
    /\ relaxed_primals = EmptyVector
    /\ direction_lower_bounds = EmptyVector
    /\ direction_upper_bounds = EmptyVector
    /\ l1qp_direction = NoDirection
    /\ solver_active_set = EmptyActiveSet

GenerateVariablesBounds ==
    /\ active_set_pc = "constructed"
    /\ active_set_pc' = "bounded"
    /\ variables_bounds' = generate_variables_bounds_(current_iterate_x, trust_region_radius)
    /\ UNCHANGED <<original_problem, trust_region_radius, current_iterate_x, elastic_variables,
                   relaxed_primals, direction_lower_bounds, direction_upper_bounds,
                   l1qp_direction, solver_active_set>>
    /\ UNCHANGED outside_active_set

GenerateElasticVariables ==
    /\ active_set_pc = "bounded"
    /\ active_set_pc' = "relaxed"
    /\ elastic_variables' = generate_elastic_variables_(original_problem, elastic_variables)
    /\ UNCHANGED <<original_problem, trust_region_radius, current_iterate_x, variables_bounds,
                   relaxed_primals, direction_lower_bounds, direction_upper_bounds,
                   l1qp_direction, solver_active_set>>
    /\ UNCHANGED outside_active_set

\* set_direction_bounds for the current iterate of the relaxed problem, whose elastic
\* part is an input
SetDirectionBounds ==
    /\ active_set_pc = "relaxed"
    /\ \E elastic_value \in ElasticValues :
        \E x \in {[i \in 0..(relaxed_number_variables - 1) |->
                      IF i < get_number_original_variables THEN current_iterate_x[i]
                      ELSE elastic_value]} :
        \E generated \in {set_direction_bounds(x, trust_region_radius)} :
            /\ relaxed_primals' = x
            /\ direction_lower_bounds' = generated.lower
            /\ direction_upper_bounds' = generated.upper
    /\ active_set_pc' = "direction_bounded"
    /\ UNCHANGED <<original_problem, trust_region_radius, current_iterate_x, variables_bounds,
                   elastic_variables, l1qp_direction, solver_active_set>>
    /\ UNCHANGED outside_active_set

\* the QP solver returns a direction of the relaxed problem with its active set
SolveQP ==
    /\ active_set_pc = "direction_bounded"
    /\ \E elastic_part \in [get_number_original_variables..(relaxed_number_variables - 1)
                                -> ElasticValues],
          bounds_at_lower \in BoundIndexSets(relaxed_number_variables),
          bounds_at_upper \in BoundIndexSets(relaxed_number_variables),
          constraints_at_lower \in SUBSET (0..(original_problem.number_constraints - 1)),
          constraints_at_upper \in SUBSET (0..(original_problem.number_constraints - 1)) :
        /\ solver_active_set' =
               [bounds |-> [at_lower_bound |-> bounds_at_lower,
                            at_upper_bound |-> bounds_at_upper],
                constraints |-> [at_lower_bound |-> constraints_at_lower,
                                 at_upper_bound |-> constraints_at_upper]]
        /\ l1qp_direction' =
               [x |-> [i \in 0..(relaxed_number_variables - 1) |->
                          IF i < get_number_original_variables THEN Zero
                          ELSE elastic_part[i]],
                multipliers |-> [constraints |->
                    [j \in 0..(original_problem.number_constraints - 1) |-> Zero]],
                active_set |-> solver_active_set']
    /\ active_set_pc' = "solved"
    /\ UNCHANGED <<original_problem, trust_region_radius, current_iterate_x, variables_bounds,
                   elastic_variables, relaxed_primals, direction_lower_bounds,
                   direction_upper_bounds>>
    /\ UNCHANGED outside_active_set

RecoverL1qpActiveSet ==
    /\ active_set_pc = "solved"
    /\ l1qp_direction' =
           recover_l1qp_active_set_(original_problem, l1qp_direction, elastic_variables)
    /\ active_set_pc' = "recovered"
    /\ UNCHANGED <<original_problem, trust_region_radius, current_iterate_x, variables_bounds,
                   elastic_variables, relaxed_primals, direction_lower_bounds,
                   direction_upper_bounds, solver_active_set>>
    /\ UNCHANGED outside_active_set

(***************************************************************************)
(* The LP steps of the active-set methods: the optimality LP and the        *)
(* restoration LP built from the constraint partition of its direction.    *)
(* A sparse vector is a function on the indices it stores.                 *)
(***************************************************************************)
\* operator[] of a sparse vector: an entry that is not stored reads 0
SparseEntry(v, i) == IF i \in DOMAIN v THEN v[i] ELSE Zero

\* mutant: the gradient of every infeasible constraint is added
add_constraint_gradient_unsigned(objective_gradient, row, feasibility) ==
    [i \in DOMAIN objective_gradient \cup DOMAIN row |->
        IF i \in DOMAIN row
        THEN Add(SparseEntry(objective_gradient, i), row[i])
        ELSE objective_gradient[i]]

\* the inner loop of compute_l1_linear_objective_ over the entries of one Jacobian row
add_constraint_gradient(objective_gradient, row, feasibility) ==
    [i \in DOMAIN objective_gradient \cup DOMAIN row |->
        IF i \in DOMAIN row
        THEN IF feasibility = "INFEASIBLE_LOWER"
             THEN Sub(SparseEntry(objective_gradient, i), row[i])
             ELSE Add(SparseEntry(objective_gradient, i), row[i])
        ELSE objective_gradient[i]]

\* the outer loop over constraint_partition.infeasible, from its k-th entry on
RECURSIVE compute_l1_linear_objective_from(_, _, _, _)
compute_l1_linear_objective_from(jacobian, partition, k, objective_gradient) ==
    IF k > Len(partition.infeasible) THEN objective_gradient
    ELSE LET j == partition.infeasible[k]
         IN  compute_l1_linear_objective_from(jacobian, partition, k + 1,
                 add_constraint_gradient(objective_gradient, jacobian[j],
                                         partition.constraint_feasibility[j]))

\* the objective gradient handed to set_objective_gradient
compute_l1_linear_objective_(jacobian, partition) ==
    compute_l1_linear_objective_from(jacobian, partition, 1, EmptyVector)

\* mutant: an infeasible constraint keeps both of its bounds
generate_feasibility_bounds_two_sided(prob, current_constraints, partition) ==
    [j \in 0..(prob.number_constraints - 1) |->
        [lb |-> Sub(prob.constraint_bounds[j].lb, current_constraints[j]),
         ub |-> Sub(prob.constraint_bounds[j].ub, current_constraints[j])]]

\* mutant: a constraint below its lower bound gets that bound as lower end
generate_feasibility_bounds_lower_end(prob, current_constraints, partition) ==
    [j \in 0..(prob.number_constraints - 1) |->
        IF partition.constraint_feasibility[j] = "INFEASIBLE_LOWER"
        THEN [lb |-> Sub(prob.constraint_bounds[j].lb, current_constraints[j]),
              ub |-> PosInf]
        ELSE IF partition.constraint_feasibility[j] = "INFEASIBLE_UPPER"
        THEN [lb |-> Sub(prob.constraint_bounds[j].ub, current_constraints[j]),
              ub |-> PosInf]
        ELSE [lb |-> Sub(prob.constraint_bounds[j].lb, current_constraints[j]),
              ub |-> Sub(prob.constraint_bounds[j].ub, current_constraints[j])]]

generate_feasibility_bounds_(prob, current_constraints, partition) ==
    [j \in 0..(prob.number_constraints - 1) |->
        IF partition.constraint_feasibility[j] = "INFEASIBLE_LOWER"
        THEN [lb |-> NegInf,
              ub |-> Sub(prob.constraint_bounds[j].lb, current_constraints[j])]
        ELSE IF partition.constraint_feasibility[j] = "INFEASIBLE_UPPER"
        THEN [lb |-> Sub(prob.constraint_bounds[j].ub, current_constraints[j]),
              ub |-> PosInf]
        ELSE [lb |-> Sub(prob.constraint_bounds[j].lb, current_constraints[j]),
              ub |-> Sub(prob.constraint_bounds[j].ub, current_constraints[j])]]

\* bounds of the linearized constraints of the optimality LP
generate_constraints_bounds(prob, current_constraints) ==
    [j \in 0..(prob.number_constraints - 1) |->
        [lb |-> Sub(prob.constraint_bounds[j].lb, current_constraints[j]),
         ub |-> Sub(prob.constraint_bounds[j].ub, current_constraints[j])]]

\* mutant: the sign of the predicted reduction is lost
compute_lp_predicted_reduction_unsigned(dir, step_length) == Mul(step_length, dir.objective)

\* the predicted reduction is linear in the step length
compute_lp_predicted_reduction_(dir, step_length) == Mul(Neg(step_length), dir.objective)

\* the Direction of the solver as compute_lp_step_ returns it
optimality_direction(prob, solved) ==
    [solved EXCEPT !.objective_multiplier = prob.objective_sign,
                   !.phase = "OPTIMALITY",
                   !.predicted_reduction = "compute_lp_predicted_reduction_"]

\* mutant: the partition found by the restoration solve is kept
restoration_direction_keeps_partition(solved, phase_2) ==
    [solved EXCEPT !.objective_multiplier = Zero,
                   !.phase = "RESTORATION",
                   !.predicted_reduction = "compute_lp_predicted_reduction_"]

\* the Direction of the solver as compute_l1lp_step_ returns it
restoration_direction(solved, phase_2) ==
    [solved EXCEPT !.objective_multiplier = Zero,
                   !.phase = "RESTORATION",
                   !.constraint_partition = phase_2.constraint_partition,
                   !.predicted_reduction = "compute_lp_predicted_reduction_"]

\* the initial point d0 of the two LP solves
lp_initial_point(x) == [i \in DOMAIN x |-> Zero]

l1lp_initial_point(phase_2) == phase_2.x

(***************************************************************************)
(* Inputs of the LP steps.                                                 *)
(***************************************************************************)
ConstraintValues == {R(-2, 1), Zero, R(2, 1)}

\* the tags a solver can give constraint j: a bound that is not finite is never violated
FeasibilityTags(prob, j) ==
    {"FEASIBLE"}
        \cup (IF is_finite(prob.constraint_bounds[j].lb) THEN {"INFEASIBLE_LOWER"} ELSE {})
        \cup (IF is_finite(prob.constraint_bounds[j].ub) THEN {"INFEASIBLE_UPPER"} ELSE {})

\* the constraints tagged infeasible, in increasing order
RECURSIVE InfeasibleUpTo(_, _)
InfeasibleUpTo(feasibility, count) ==
    IF count = 0 THEN <<>>
    ELSE IF feasibility[count - 1] = "FEASIBLE"
         THEN InfeasibleUpTo(feasibility, count - 1)
         ELSE Append(InfeasibleUpTo(feasibility, count - 1), count - 1)

ConstraintPartitions(prob) ==
    { [constraint_feasibility |-> feasibility,
       infeasible |-> InfeasibleUpTo(feasibility, prob.number_constraints)] :
          feasibility \in { f \in [0..(prob.number_constraints - 1) ->
                                      {"FEASIBLE", "INFEASIBLE_LOWER", "INFEASIBLE_UPPER"}] :
                                \A j \in DOMAIN f : f[j] \in FeasibilityTags(prob, j) } }

\* a dense Jacobian, and one whose rows store a single entry
Jacobians(prob) ==
    { [j \in 0..(prob.number_constraints - 1) |->
          [i \in 0..(prob.number_variables - 1) |-> R(i + 2 * j + 1, 1)]],
      [j \in 0..(prob.number_constraints - 1) |->
          (prob.number_variables - 1) :> R(-1, 1)] }

Displacements(prob) ==
    { [i \in 0..(prob.number_variables - 1) |-> value] : value \in {Zero, Half} }

SubproblemObjectives == {R(-1, 1), R(2, 1)}

\* the Directions solve_LP can return: the fields set by the caller are not yet set
SolvedDirections(prob) ==
    { [x |-> displacement, objective |-> objective, objective_multiplier |-> One,
       phase |-> "NONE", constraint_partition |-> partition, predicted_reduction |-> "none"] :
          displacement \in Displacements(prob), objective \in SubproblemObjectives,
          partition \in ConstraintPartitions(prob) }

NoPartition == [constraint_feasibility |-> EmptyVector, infeasible |-> <<>>]

\* the step lengths at which the driver evaluates the predicted reduction
StepLengths == {Zero, Half, One}

NoLPDirection ==
    [x |-> EmptyVector, objective |-> Zero, objective_multiplier |-> Zero, phase |-> "NONE",
     constraint_partition |-> NoPartition, predicted_reduction |-> "none"]

NoEvaluation == [direction |-> NoLPDirection, step_length |-> Zero, value |-> Zero]

(***************************************************************************)
(* Operations of the LP steps.                                             *)
(***************************************************************************)
LPStepsIdle ==
    /\ lp_pc = "idle"
    /\ current_iterate_constraints = EmptyVector
    /\ current_iterate_constraints_jacobian = EmptyVector
    /\ current_iterate_objective_gradient = EmptyVector
    /\ constraints_bounds = EmptyVector
    /\ solver_initial_point = EmptyVector
    /\ phase_2_direction = NoLPDirection
    /\ l1lp_direction = NoLPDirection
    /\ lp_number_subproblems_solved = 0
    /\ predicted_reduction_evaluation = NoEvaluation

\* the iterate handed to the LP steps, with its evaluations
LPStepsConstructed(prob, constraints, jacobian) ==
    /\ lp_pc = "constructed"
    /\ current_iterate_constraints = constraints
    /\ current_iterate_constraints_jacobian = jacobian
    /\ current_iterate_objective_gradient = [i \in 0..(prob.number_variables - 1) |-> One]
    /\ constraints_bounds = EmptyVector
    /\ solver_initial_point = EmptyVector
    /\ phase_2_direction = NoLPDirection
    /\ l1lp_direction = NoLPDirection
    /\ lp_number_subproblems_solved = 0
    /\ predicted_reduction_evaluation = NoEvaluation

ComputeLPStep ==
    /\ lp_pc = "constructed"
    /\ variables_bounds' = generate_variables_bounds_(current_iterate_x, trust_region_radius)
    /\ constraints_bounds' = generate_constraints_bounds(original_problem, current_iterate_constraints)
    /\ solver_initial_point' = lp_initial_point(current_iterate_x)
    /\ \E solved \in SolvedDirections(original_problem) :
        phase_2_direction' = optimality_direction(original_problem, solved)
    /\ lp_number_subproblems_solved' = lp_number_subproblems_solved + 1
    /\ lp_pc' = "phase_2"
    /\ UNCHANGED <<current_iterate_constraints, current_iterate_constraints_jacobian,
                   current_iterate_objective_gradient, l1lp_direction,
                   predicted_reduction_evaluation>>
    /\ UNCHANGED <<active_set_pc, original_problem, trust_region_radius, current_iterate_x,
                   elastic_variables, relaxed_primals, direction_lower_bounds,
                   direction_upper_bounds, l1qp_direction, solver_active_set>>
    /\ UNCHANGED outside_lp_steps

ComputeL1LPStep ==
    /\ lp_pc = "phase_2"
    /\ current_iterate_objective_gradient' =
           compute_l1_linear_objective_(current_iterate_constraints_jacobian,
                                        phase_2_direction.constraint_partition)
    /\ variables_bounds' = generate_variables_bounds_(current_iterate_x, trust_region_radius)
    /\ constraints_bounds' =
           generate_feasibility_bounds_(original_problem, current_iterate_constraints,
                                        phase_2_direction.constraint_partition)
    /\ solver_initial_point' = l1lp_initial_point(phase_2_direction)
    /\ \E solved \in SolvedDirections(original_problem) :
        l1lp_direction' = restoration_direction(solved, phase_2_direction)
    /\ lp_number_subproblems_solved' = lp_number_subproblems_solved + 1
    /\ lp_pc' = "restoration"
    /\ UNCHANGED <<current_iterate_constraints, current_iterate_constraints_jacobian,
                   phase_2_direction, predicted_reduction_evaluation>>
    /\ UNCHANGED <<active_set_pc, original_problem, trust_region_radius, current_iterate_x,
                   elastic_variables, relaxed_primals, direction_lower_bounds,
                   direction_upper_bounds, l1qp_direction, solver_active_set>>
    /\ UNCHANGED outside_lp_steps

\* the driver calls direction.predicted_reduction on a Direction it holds
EvaluatePredictedReduction ==
    /\ lp_pc \in {"phase_2", "restoration"}
    /\ \E dir \in {phase_2_direction} \cup
                   (IF lp_pc = "restoration" THEN {l1lp_direction} ELSE {}),
          step_length \in StepLengths :
        predicted_reduction_evaluation' =
            [direction |-> dir, step_length |-> step_length,
             value |-> compute_lp_predicted_reduction_(dir, step_length)]
    /\ UNCHANGED <<lp_pc, current_iterate_constraints, current_iterate_constraints_jacobian,
                   current_iterate_objective_gradient, constraints_bounds,
                   solver_initial_point, phase_2_direction, l1lp_direction,
                   lp_number_subproblems_solved>>
    /\ UNCHANGED active_set_vars
    /\ UNCHANGED outside_lp_steps

(***************************************************************************)
(* The LP subproblem: LPSubproblem::solve with its warm-start flags.       *)
(***************************************************************************)
\* the evaluations of the problem: objective x0^2 + x1, constraint x0 * x1
lp_evaluate_objective_gradient(x) == (0 :> Mul(R(2, 1), x[0])) @@ (1 :> One)

lp_evaluate_constraints(x) == (0 :> Mul(x[0], x[1]))

lp_evaluate_constraint_jacobian(x) == (0 :> ((0 :> x[1]) @@ (1 :> x[0])))

\* mutant: the functions are evaluated whatever the flags say
evaluate_functions_always(evaluations, x, warmstart_information) ==
    [objective_gradient |-> lp_evaluate_objective_gradient(x),
     constraints |-> lp_evaluate_constraints(x),
     constraint_jacobian |-> lp_evaluate_constraint_jacobian(x)]

evaluate_functions(evaluations, x, warmstart_information) ==
    [objective_gradient |->
         IF warmstart_information.objective_changed THEN lp_evaluate_objective_gradient(x)
         ELSE evaluations.objective_gradient,
     constraints |->
         IF warmstart_information.constraints_changed THEN lp_evaluate_constraints(x)
         ELSE evaluations.constraints,
     constraint_jacobian |->
         IF warmstart_information.constraints_changed THEN lp_evaluate_constraint_jacobian(x)
         ELSE evaluations.constraint_jacobian]

\* bounds of the variable displacements: the bounds of the variables shifted by the
\* current point, intersected with the trust region
set_variable_displacement_bounds(prob, x, radius) ==
    [i \in 0..(prob.number_variables - 1) |->
        Interval(StdMax(Neg(radius), Sub(prob.variables_bounds[i].lb, x[i])),
                 StdMin(radius, Sub(prob.variables_bounds[i].ub, x[i])))]

set_linearized_constraint_bounds(prob, current_constraints) ==
    [j \in 0..(prob.number_constraints - 1) |->
        Interval(Sub(prob.constraint_bounds[j].lb, current_constraints[j]),
                 Sub(prob.constraint_bounds[j].ub, current_constraints[j]))]

\* mutant: the duals of the current iterate are subtracted twice
compute_dual_displacements_twice(prob, current_multipliers, new_multipliers) ==
    [constraints |-> [j \in 0..(prob.number_constraints - 1) |->
         subtract_double(subtract_double(new_multipliers.constraints[j],
                                         current_multipliers.constraints[j]),
                         current_multipliers.constraints[j])],
     lower_bounds |-> [i \in 0..(prob.number_variables - 1) |->
         subtract_double(subtract_double(new_multipliers.lower_bounds[i],
                                         current_multipliers.lower_bounds[i]),
                         current_multipliers.lower_bounds[i])],
     upper_bounds |-> [i \in 0..(prob.number_variables - 1) |->
         subtract_double(subtract_double(new_multipliers.upper_bounds[i],
                                         current_multipliers.upper_bounds[i]),
                         current_multipliers.upper_bounds[i])]]

\* direction.multipliers after the three loops of compute_dual_displacements
compute_dual_displacements(prob, current_multipliers, new_multipliers) ==
    [constraints |-> [j \in 0..(prob.number_constraints - 1) |->
         subtract_double(new_multipliers.constraints[j], current_multipliers.constraints[j])],
     lower_bounds |-> [i \in 0..(prob.number_variables - 1) |->
         subtract_double(new_multipliers.lower_bounds[i], current_multipliers.lower_bounds[i])],
     upper_bounds |-> [i \in 0..(prob.number_variables - 1) |->
         subtract_double(new_multipliers.upper_bounds[i], current_multipliers.upper_bounds[i])]]

\* inputs of the solve calls
MaxLPSolves == 2

LPSubproblemProblem ==
    [number_variables |-> 2, number_constraints |-> 1,
     variables_bounds |-> (0 :> Interval(R(-1, 1), R(2, 1))) @@ (1 :> Interval(NegInf, One)),
     constraint_bounds |-> (0 :> Interval(Zero, One))]

LPMultipliers(constraint, lower0, lower1, upper0, upper1) ==
    [constraints |-> (0 :> constraint),
     lower_bounds |-> (0 :> lower0) @@ (1 :> lower1),
     upper_bounds |-> (0 :> upper0) @@ (1 :> upper1)]

LPIterates ==
    { [primals |-> (0 :> Zero) @@ (1 :> One),
       multipliers |-> LPMultipliers(R(4, 1), Zero, Half, Zero, Zero)],
      [primals |-> (0 :> One) @@ (1 :> Half),
       multipliers |-> LPMultipliers(R(-1, 1), One, Zero, Zero, R(-2, 1))] }

WarmstartInformations ==
    [objective_changed : BOOLEAN, constraints_changed : BOOLEAN,
     variable_bounds_changed : BOOLEAN, constraint_bounds_changed : BOOLEAN]

\* what the external LP solver returns: a status and the new duals; the results are
\* those that pass Subproblem::check_unboundedness
LPSolverResults ==
    { [status |-> "OPTIMAL", multipliers |-> LPMultipliers(R(1, 8), Half, Zero, Zero, R(-1, 1))],
      [status |-> "INFEASIBLE",
       multipliers |-> LPMultipliers(R(3, 1), Zero, One, R(-1, 2), Zero)] }

NoWarmstartInformation ==
    [objective_changed |-> FALSE, constraints_changed |-> FALSE,
     variable_bounds_changed |-> FALSE, constraint_bounds_changed |-> FALSE]

NoMultipliers ==
    [constraints |-> EmptyVector, lower_bounds |-> EmptyVector, upper_bounds |-> EmptyVector]

NoLPIterate == [primals |-> EmptyVector, multipliers |-> NoMultipliers]

NoLPSolverCall ==
    [count |-> 0, warmstart_information |-> NoWarmstartInformation,
     new_multipliers |-> NoMultipliers]

NoLPSubproblemDirection == [status |-> "NONE", multipliers |-> NoMultipliers]

\* the members of a new LPSubproblem: vectors of zeros
InitialEvaluations(prob) ==
    [objective_gradient |-> [i \in 0..(prob.number_variables - 1) |-> Zero],
     constraints |-> [j \in 0..(prob.number_constraints - 1) |-> Zero],
     constraint_jacobian |->
         [j \in 0..(prob.number_constraints - 1) |->
             [i \in 0..(prob.number_variables - 1) |-> Zero]]]

InitialVariableDisplacementBounds(prob) ==
    [i \in 0..(prob.number_variables - 1) |-> Interval(Zero, Zero)]

InitialLinearizedConstraintBounds(prob) ==
    [j \in 0..(prob.number_constraints - 1) |-> Interval(Zero, Zero)]

LPSubproblemIdle ==
    /\ lpsub_pc = "idle"
    /\ lpsub_problem = LPSubproblemProblem
    /\ lpsub_trust_region_radius = PosInf
    /\ lpsub_iterate = NoLPIterate
    /\ lp_evaluations = InitialEvaluations(LPSubproblemProblem)
    /\ variable_displacement_bounds = InitialVariableDisplacementBounds(LPSubproblemProblem)
    /\ linearized_constraint_bounds = InitialLinearizedConstraintBounds(LPSubproblemProblem)
    /\ lp_solver_calls = NoLPSolverCall
    /\ lp_calls = <<>>
    /\ lp_direction = NoLPSubproblemDirection
    /\ lpsub_number_subproblems_solved = 0

LPSubproblemConstructed(prob, radius) ==
    /\ lpsub_pc = "ready"
    /\ lpsub_problem = prob
    /\ lpsub_trust_region_radius = radius
    /\ lpsub_iterate = NoLPIterate
    /\ lp_evaluations = InitialEvaluations(prob)
    /\ variable_displacement_bounds = InitialVariableDisplacementBounds(prob)
    /\ linearized_constraint_bounds = InitialLinearizedConstraintBounds(prob)
    /\ lp_solver_calls = NoLPSolverCall
    /\ lp_calls = <<>>
    /\ lp_direction = NoLPSubproblemDirection
    /\ lpsub_number_subproblems_solved = 0

\* LPSubproblem::solve, with solve_LP
LPSolve ==
    /\ lpsub_pc = "ready"
    /\ Len(lp_calls) < MaxLPSolves
    /\ \E current_iterate \in LPIterates, warmstart_information \in WarmstartInformations,
          solved \in LPSolverResults :
        \E evaluated \in {evaluate_functions(lp_evaluations, current_iterate.primals,
                                             warmstart_information)} :
            /\ lpsub_iterate' = current_iterate
            /\ lp_calls' = Append(lp_calls, [primals |-> current_iterate.primals,
                                             warmstart_information |-> warmstart_information])
            /\ lp_evaluations' = evaluated
            /\ variable_displacement_bounds' =
                   IF warmstart_information.variable_bounds_changed
                   THEN set_variable_displacement_bounds(lpsub_problem, current_iterate.primals,
                                                         lpsub_trust_region_radius)
                   ELSE variable_displacement_bounds
            /\ linearized_constraint_bounds' =
                   IF warmstart_information.constraint_bounds_changed
                   THEN set_linearized_constraint_bounds(lpsub_problem, evaluated.constraints)
                   ELSE linearized_constraint_bounds
            /\ lp_solver_calls' = [count |-> lp_solver_calls.count + 1,
                                   warmstart_information |-> warmstart_information,
                                   new_multipliers |-> solved.multipliers]
            /\ lp_direction' =
                   [status |-> solved.status,
                    multipliers |-> compute_dual_displacements(lpsub_problem,
                        current_iterate.multipliers, solved.multipliers)]
    /\ lpsub_number_subproblems_solved' = lpsub_number_subproblems_solved + 1
    /\ UNCHANGED <<lpsub_pc, lpsub_problem, lpsub_trust_region_radius>>
    /\ UNCHANGED outside_lp_subproblem

(***************************************************************************)
(* InequalityHandlingMethodFactory.                                        *)
(***************************************************************************)
\* mutant: the LP branch is missing
create_without_LP(subproblem_strategy) ==
    IF subproblem_strategy = "QP"
    THEN [returned |-> "QPSubproblem", thrown |-> "none"]
    ELSE IF subproblem_strategy = "primal_dual_interior_point"
    THEN [returned |-> "PrimalDualInteriorPointMethod", thrown |-> "none"]
    ELSE [returned |-> "none", thrown |-> "invalid_argument"]

create(subproblem_strategy) ==
    IF subproblem_strategy = "QP"
    THEN [returned |-> "QPSubproblem", thrown |-> "none"]
    ELSE IF subproblem_strategy = "LP"
    THEN [returned |-> "LPSubproblem", thrown |-> "none"]
    ELSE IF subproblem_strategy = "primal_dual_interior_point"
    THEN [returned |-> "PrimalDualInteriorPointMethod", thrown |-> "none"]
    ELSE [returned |-> "none", thrown |-> "invalid_argument"]

available_strategies(available_qp_solvers, available_linear_solvers) ==
    (IF available_qp_solvers # <<>> THEN <<"QP", "LP">> ELSE <<>>)
        \o (IF available_linear_solvers # <<>>
            THEN <<"primal_dual_interior_point">> ELSE <<>>)

\* the values of the option "subproblem" and the solvers of the build
SubproblemOptions ==
    {"QP", "LP", "primal_dual_interior_point", "qp", "QP ", "IPM", "SQP", ""}

QPSolverLists == {<<>>, <<"BQPD">>, <<"HiGHS">>, <<"BQPD", "HiGHS">>}

LinearSolverLists == {<<>>, <<"MA57">>, <<"MUMPS">>, <<"MA57", "MUMPS">>}

FactoryIdle ==
    /\ factory_pc = "idle"
    /\ factory_options = [subproblem |-> ""]
    /\ qp_solvers = <<>>
    /\ linear_solvers = <<>>
    /\ created_method = "none"
    /\ thrown_exception = "none"
    /\ strategies = <<>>
    /\ strategies_returned = FALSE

FactoryConfigured(subproblem_strategy, available_qp_solvers, available_linear_solvers) ==
    /\ factory_pc = "configured"
    /\ factory_options = [subproblem |-> subproblem_strategy]
    /\ qp_solvers = available_qp_solvers
    /\ linear_solvers = available_linear_solvers
    /\ created_method = "none"
    /\ thrown_exception = "none"
    /\ strategies = <<>>
    /\ strategies_returned = FALSE

\* InequalityHandlingMethodFactory::create on the options
Create ==
    /\ factory_pc = "configured"
    /\ \E made \in {create(factory_options.subproblem)} :
        /\ created_method' = made.returned
        /\ thrown_exception' = made.thrown
        /\ factory_pc' = IF made.thrown = "none" THEN "created" ELSE "failed"
    /\ UNCHANGED <<factory_options, qp_solvers, linear_solvers, strategies,
                   strategies_returned>>
    /\ UNCHANGED outside_factory

\* InequalityHandlingMethodFactory::available_strategies, a static function
AvailableStrategies ==
    /\ factory_pc # "idle"
    /\ ~strategies_returned
    /\ strategies' = available_strategies(qp_solvers, linear_solvers)
    /\ strategies_returned' = TRUE
    /\ UNCHANGED <<factory_pc, factory_options, qp_solvers, linear_solvers, created_method,
                   thrown_exception>>
    /\ UNCHANGED outside_factory

(***************************************************************************)
(* Specifications.                                                         *)
(***************************************************************************)
vars == <<ipm_vars, active_set_vars, lp_step_vars, lp_subproblem_vars, factory_vars>>

\* the interior-point subproblem is not used by the active-set methods
InteriorPointIdle ==
    \E prob \in {q \in ProblemChoices : q.inequality_constraints # {}},
       params \in {q \in ParameterChoices : q.k_sigma = One} :
        Constructed(prob, params, ZeroVector(Len(prob.variable_lower_bounds)))

\* the life of one interior-point subproblem object
Init ==
    \E prob \in ProblemChoices, params \in ParameterChoices :
        \E x0 \in InitialPoints, flags \in FlagChoices :
            /\ ConstructedWith(prob, params, x0, flags)
            /\ ActiveSetIdle /\ LPStepsIdle /\ LPSubproblemIdle /\ FactoryIdle

Next ==
    \/ initialize
    \/ solve
    \/ assemble_trial_iterate
    \/ PostprocessIterate
    \/ InitializeFeasibilityProblem
    \/ ExitFeasibilityProblem

Spec == Init /\ [][Next]_vars

\* solve() and postprocess_iterate() applied to any iterate: on, inside or outside its
\* bounds, with bound multipliers of any sign
AnyPrimals == { <<x1, x2>> : x1 \in {Zero, Half, One}, x2 \in {Zero, Half, One} }

AnyBoundMultipliers ==
    { <<One, R(-1, 1)>>, <<Zero, Zero>>, <<R(3, 1), R(-1, 4)>>, <<R(-1, 1), One>> }

\* what an earlier solve, possibly of another problem, left in the two delta_z vectors
\* and in the right-hand side
LeftDisplacements == {Zero, One}

AnyIterate(prob, params, x, z, mu, at, flags, left) ==
    /\ pc = at
    /\ assertion_failed = "none"
    /\ last = "constructor"
    /\ problem = prob
    /\ parameters = params
    /\ primals = x
    /\ lower_bounds = [i \in 1..Len(x) |-> z[1]]
    /\ upper_bounds = [i \in 1..Len(x) |-> z[2]]
    /\ multipliers_constraints = [j \in 1..prob.number_constraints |-> One]
    /\ barrier_parameter = mu
    /\ previous_barrier_parameter = params.barrier_initial_parameter
    /\ solving_feasibility_problem = FALSE
    /\ subproblem_definition_changed = FALSE
    /\ evaluations_constraints = [j \in 1..prob.number_constraints |-> Zero]
    /\ solution = [k \in 1..(Len(x) + prob.number_constraints) |-> Zero]
    /\ lower_delta_z = [i \in 1..Len(x) |-> left]
    /\ upper_delta_z = [i \in 1..Len(x) |-> Neg(left)]
    /\ direction = EmptyDirection
    /\ number_subproblems_solved = 0
    /\ first_iterate_flags = flags
    /\ evaluations_objective_gradient = [i \in 1..Len(x) |-> Zero]
    /\ rhs = [k \in 1..(Len(x) + prob.number_constraints) |-> left]
    /\ dual_regularization_parameter = Zero
    /\ trial_iterate = NoTrialIterate
    /\ history = [mu_before_entry |-> mu, solved_at_entry |-> 0, mu_before_exit |-> mu,
                  corrections |-> 0]

InitAnyIterate ==
    \E prob \in {q \in ProblemChoices : q.inequality_constraints = {}},
       params \in ParameterChoices, x \in AnyPrimals, z \in AnyBoundMultipliers,
       mu \in {One, R(1, 4)}, at \in {"ready", "trial"}, left \in LeftDisplacements :
        /\ AnyIterate(prob, params, x, z, mu, at, FreshFlags, left)
        /\ ActiveSetIdle /\ LPStepsIdle /\ LPSubproblemIdle /\ FactoryIdle

NextAnyIterate ==
    \/ solve
    \/ PostprocessIterate

SpecAnyIterate == InitAnyIterate /\ [][NextAnyIterate]_vars

\* initialize() and solve() called on any problem, with or without inequality constraints
InitAnyProblem ==
    \E prob \in ProblemChoices, params \in ParameterChoices, x \in AnyPrimals,
       z \in AnyBoundMultipliers, mu \in {One, R(1, 4)}, at \in {"constructed", "ready"} :
        /\ AnyIterate(prob, params, x, z, mu, at, FreshFlags, Zero)
        /\ ActiveSetIdle /\ LPStepsIdle /\ LPSubproblemIdle /\ FactoryIdle

NextAnyProblem ==
    \/ initialize
    \/ solve

SpecAnyProblem == InitAnyProblem /\ [][NextAnyProblem]_vars

\* initialize on problems with finite bounds, for any admissible k1 and k2
InitAnyBounds ==
    \E prob \in BoundedProblemChoices, params \in PushParameterChoices, x0 \in PushPoints :
        /\ ConstructedWith(prob, params, x0, FreshFlags)
        /\ ActiveSetIdle /\ LPStepsIdle /\ LPSubproblemIdle /\ FactoryIdle

NextAnyBounds == initialize

SpecAnyBounds == InitAnyBounds /\ [][NextAnyBounds]_vars

\* solves followed by second-order corrections, from any iterate and any previous
\* contents of the right-hand side
InitSecondOrderCorrection ==
    \E prob \in {q \in ProblemChoices : q.inequality_constraints = {}},
       params \in {q \in ParameterChoices : q.k_sigma = One}, x \in AnyPrimals,
       left \in LeftDisplacements :
        /\ AnyIterate(prob, params, x, <<One, R(-1, 1)>>, One, "ready", FreshFlags, left)
        /\ ActiveSetIdle /\ LPStepsIdle /\ LPSubproblemIdle /\ FactoryIdle

NextSecondOrderCorrection ==
    \/ solve
    \/ compute_second_order_correction
    \/ assemble_corrected_iterate
    \/ PostprocessIterate

SpecSecondOrderCorrection == InitSecondOrderCorrection /\ [][NextSecondOrderCorrection]_vars

\* one iteration of an active-set method on the l1-relaxed problem
InitActiveSet ==
    \E prob \in ActiveSetProblems, radius \in TrustRegionRadii, value \in OriginalValues :
        /\ ActiveSetConstructed(prob, radius, value)
        /\ InteriorPointIdle
        /\ LPStepsIdle /\ LPSubproblemIdle /\ FactoryIdle

NextActiveSet ==
    \/ GenerateVariablesBounds
    \/ GenerateElasticVariables
    \/ SetDirectionBounds
    \/ SolveQP
    \/ RecoverL1qpActiveSet

SpecActiveSet == InitActiveSet /\ [][NextActiveSet]_vars

\* the two LP steps of one iteration: optimality, then restoration
InitLPSteps ==
    \E prob \in ActiveSetProblems, radius \in TrustRegionRadii, value \in OriginalValues :
        \E constraints \in [0..(prob.number_constraints - 1) -> ConstraintValues],
           jacobian \in Jacobians(prob) :
            /\ ActiveSetConstructed(prob, radius, value)
            /\ LPStepsConstructed(prob, constraints, jacobian)
            /\ InteriorPointIdle /\ LPSubproblemIdle /\ FactoryIdle

NextLPSteps ==
    \/ ComputeLPStep
    \/ ComputeL1LPStep
    \/ EvaluatePredictedReduction

SpecLPSteps == InitLPSteps /\ [][NextLPSteps]_vars

\* a sequence of solves of one LP subproblem
InitLPSubproblem ==
    \E radius \in {One} :
        /\ LPSubproblemConstructed(LPSubproblemProblem, radius)
        /\ InteriorPointIdle /\ ActiveSetIdle /\ LPStepsIdle /\ FactoryIdle

NextLPSubproblem == LPSolve

SpecLPSubproblem == InitLPSubproblem /\ [][NextLPSubproblem]_vars

\* the construction of the inequality handling method from the options
InitFactory ==
    \E subproblem_strategy \in SubproblemOptions, available_qp_solvers \in QPSolverLists,
       available_linear_solvers \in LinearSolverLists :
        /\ FactoryConfigured(subproblem_strategy, available_qp_solvers,
                             available_linear_solvers)
        /\ InteriorPointIdle /\ ActiveSetIdle /\ LPStepsIdle /\ LPSubproblemIdle

NextFactory ==
    \/ Create
    \/ AvailableStrategies

SpecFactory == InitFactory /\ [][NextFactory]_vars

(***************************************************************************)
(* Properties.                                                             *)
(***************************************************************************)
StrictlyInterior(x) ==
    /\ \A i \in lower_bounded_variables : Lt(get_variable_lower_bound(i), x[i])
    /\ \A i \in upper_bounded_variables : Lt(x[i], get_variable_upper_bound(i))

\* C1: from initialize() on, and after every solve / step / postprocess_iterate,
\* the iterate is strictly inside its finite bounds, with z_L >= 0 and z_U <= 0.
C1_StrictInteriority ==
    pc \in {"ready", "solved"} =>
        /\ StrictlyInterior(primals)
        /\ \A i \in 1..number_variables :
               Le(Zero, lower_bounds[i]) /\ Le(upper_bounds[i], Zero)

C1_Witness ==
    /\ pc = "ready"
    /\ last = "postprocess_iterate"
    /\ number_subproblems_solved >= 2
    /\ Lt(direction.primal_dual_step_length, One)
    /\ Lt(direction.bound_dual_step_length, One)

\* C6: after exit_feasibility_problem() the barrier parameter is the one that held
\* just before the matching initialize_feasibility_problem(), whatever the solves
\* in between did to it.
C6_BarrierParameterRestored ==
    (last = "exit_feasibility_problem" /\ pc # "aborted") =>
        barrier_parameter = history.mu_before_entry

C6_Witness ==
    /\ last = "exit_feasibility_problem"
    /\ pc # "aborted"
    /\ number_subproblems_solved > history.solved_at_entry
    /\ history.mu_before_exit # barrier_parameter

C8_FeasibilityFlag ==
    /\ ~solving_feasibility_problem
    /\ [][/\ last' = "initialize_feasibility_problem" => solving_feasibility_problem'
          /\ (last' = "exit_feasibility_problem" /\ solving_feasibility_problem) =>
                 (~solving_feasibility_problem' /\ pc' # "aborted")
          /\ (last' = "exit_feasibility_problem" /\ ~solving_feasibility_problem) =>
                 /\ pc' = "aborted"
                 /\ assertion_failed' = "solving_feasibility_problem"
                 /\ barrier_parameter' = barrier_parameter
                 /\ ~solving_feasibility_problem'
          /\ last' \notin {"initialize_feasibility_problem", "exit_feasibility_problem"} =>
                 solving_feasibility_problem' = solving_feasibility_problem]_vars

C8_Witness ==
    /\ pc = "aborted"
    /\ assertion_failed = "solving_feasibility_problem"
    /\ history.solved_at_entry > 0
    /\ barrier_parameter # previous_barrier_parameter

\* C2: whatever the iterate (on a bound, outside it, with a zero bound multiplier) and
\* whatever the augmented-system solution, the closing assertions of
\* primal_fraction_to_boundary and dual_fraction_to_boundary pass, and the two step
\* lengths stored in the direction lie in (0, 1].
C2_StepLengthsInUnitInterval ==
    /\ assertion_failed \notin {"primal_fraction_to_boundary", "dual_fraction_to_boundary"}
    /\ pc = "solved" =>
           /\ Lt(Zero, direction.primal_dual_step_length)
           /\ Le(direction.primal_dual_step_length, One)
           /\ Lt(Zero, direction.bound_dual_step_length)
           /\ Le(direction.bound_dual_step_length, One)

C2_Witness ==
    /\ pc = "solved"
    /\ \E i \in lower_bounded_variables :
           /\ lower_bounds[i] = Zero
           /\ Lt(lower_delta_z[i], Zero)
    /\ \E i \in lower_bounded_variables :
           /\ Lt(primals[i], get_variable_lower_bound(i))
           /\ Lt(Zero, direction.primals[i])

\* the iterate after a step of length alpha along dx
SteppedPrimals(alpha) ==
    [i \in 1..number_variables |-> Add(primals[i], Mul(alpha, direction.primals[i]))]

\* C3: with tau = max(tau_min, 1 - mu) in (0, 1) and x strictly interior, the primal
\* step length alpha is in (0, 1], keeps every finite bound at distance at least
\* (1 - tau) times the current distance, is the largest such alpha (it is 1, or one
\* of these inequalities is tight for a variable moving towards its bound), and
\* x + alpha dx is strictly interior.
C3_PrimalFractionToBoundary ==
    LET mu == barrier_parameter
        tau == IF Lt(parameters.tau_min, Sub(One, mu)) THEN Sub(One, mu) ELSE parameters.tau_min
        alpha == direction.primal_dual_step_length
        x == primals
        moved == SteppedPrimals(alpha)
        keep_lower(i) == Mul(Sub(One, tau), Sub(x[i], get_variable_lower_bound(i)))
        keep_upper(i) == Mul(Sub(One, tau), Sub(get_variable_upper_bound(i), x[i]))
    IN  (pc = "solved" /\ Lt(Zero, tau) /\ Lt(tau, One) /\ StrictlyInterior(x)) =>
            /\ Lt(Zero, alpha) /\ Le(alpha, One)
            /\ \A i \in lower_bounded_variables :
                   Le(keep_lower(i), Sub(moved[i], get_variable_lower_bound(i)))
            /\ \A i \in upper_bounded_variables :
                   Le(keep_upper(i), Sub(get_variable_upper_bound(i), moved[i]))
            /\ \/ alpha = One
               \/ \E i \in lower_bounded_variables :
                      /\ Lt(direction.primals[i], Zero)
                      /\ keep_lower(i) = Sub(moved[i], get_variable_lower_bound(i))
               \/ \E i \in upper_bounded_variables :
                      /\ Lt(Zero, direction.primals[i])
                      /\ keep_upper(i) = Sub(get_variable_upper_bound(i), moved[i])
            /\ StrictlyInterior(moved)

C3_Witness ==
    /\ pc = "solved"
    /\ StrictlyInterior(primals)
    /\ Lt(parameters.tau_min, Sub(One, barrier_parameter))
    /\ Lt(direction.primal_dual_step_length, One)
    /\ \E i \in upper_bounded_variables :
           /\ Lt(Zero, direction.primals[i])
           /\ Mul(barrier_parameter, Sub(get_variable_upper_bound(i), primals[i])) =
                  Sub(get_variable_upper_bound(i),
                      SteppedPrimals(direction.primal_dual_step_length)[i])

\* C9: postprocess_iterate on an iterate strictly inside its bounds, with mu > 0 and
\* k_sigma >= 1, leaves every z_L_i in [mu/(x_i - x_L_i)/k_sigma, mu/(x_i - x_L_i)*k_sigma]
\* and every z_U_i in [mu/(x_i - x_U_i)*k_sigma, mu/(x_i - x_U_i)/k_sigma]; a
\* multiplier already in its interval, the primals and the constraint multipliers
\* are not changed.
C9_MultiplierReset ==
    [][(/\ last' = "postprocess_iterate"
        /\ StrictlyInterior(primals)
        /\ Lt(Zero, barrier_parameter)
        /\ Le(One, parameters.k_sigma)) =>
           /\ \A i \in lower_bounded_variables :
                  LET coefficient == Div(barrier_parameter, Sub(primals[i], get_variable_lower_bound(i)))
                      low == Div(coefficient, parameters.k_sigma)
                      high == Mul(coefficient, parameters.k_sigma)
                  IN  /\ Le(low, lower_bounds'[i]) /\ Le(lower_bounds'[i], high)
                      /\ (Le(low, lower_bounds[i]) /\ Le(lower_bounds[i], high)) =>
                             lower_bounds'[i] = lower_bounds[i]
           /\ \A i \in upper_bounded_variables :
                  LET coefficient == Div(barrier_parameter, Sub(primals[i], get_variable_upper_bound(i)))
                      low == Mul(coefficient, parameters.k_sigma)
                      high == Div(coefficient, parameters.k_sigma)
                  IN  /\ Le(low, upper_bounds'[i]) /\ Le(upper_bounds'[i], high)
                      /\ (Le(low, upper_bounds[i]) /\ Le(upper_bounds[i], high)) =>
                             upper_bounds'[i] = upper_bounds[i]
           /\ primals' = primals
           /\ multipliers_constraints' = multipliers_constraints]_vars

C9_Witness ==
    /\ last = "postprocess_iterate"
    /\ StrictlyInterior(primals)
    /\ Lt(One, parameters.k_sigma)
    /\ \E i \in lower_bounded_variables :
           lower_bounds[i] = Mul(Div(barrier_parameter, Sub(primals[i], get_variable_lower_bound(i))),
                                 parameters.k_sigma)
    /\ \E i \in upper_bounded_variables :
           upper_bounds[i] = Div(Div(barrier_parameter, Sub(primals[i], get_variable_upper_bound(i))),
                                 parameters.k_sigma)

\* the indices of the elastic variables in the direction of the relaxed problem
ElasticIndices ==
    {i \in 0..(size(l1qp_direction.x) - 1) : original_problem.number_variables <= i}

\* C4: after recover_l1qp_active_set_, whatever active set the solver recorded, no
\* index i with number_variables <= i < size of direction.x is in
\* active_set.bounds.at_lower_bound or active_set.bounds.at_upper_bound.
C4_NoElasticVariableInActiveSet ==
    active_set_pc = "recovered" =>
        \A i \in ElasticIndices :
            /\ i \notin l1qp_direction.active_set.bounds.at_lower_bound
            /\ i \notin l1qp_direction.active_set.bounds.at_upper_bound

C4_Witness ==
    /\ active_set_pc = "recovered"
    /\ ElasticIndices # {}
    /\ ElasticIndices \subseteq solver_active_set.bounds.at_lower_bound
    /\ ElasticIndices \cap solver_active_set.bounds.at_upper_bound # {}
    /\ 0 \in l1qp_direction.active_set.bounds.at_upper_bound

\* p_j + n_j read from the direction, a missing elastic variable counting as 0
ElasticSum(j) ==
    Add(IF j \in DOMAIN elastic_variables.positive
        THEN l1qp_direction.x[elastic_variables.positive[j]] ELSE Zero,
        IF j \in DOMAIN elastic_variables.negative
        THEN l1qp_direction.x[elastic_variables.negative[j]] ELSE Zero)

IsMaxOf(v, a, b) == v \in {a, b} /\ Le(a, v) /\ Le(b, v)

IsMinOf(v, a, b) == v \in {a, b} /\ Le(v, a) /\ Le(v, b)

\* C10: the displacement of an original variable i is bounded by
\* [max(-Delta, x_L_i - x_i), min(Delta, x_U_i - x_i)], both in generate_variables_bounds_
\* and in set_direction_bounds; the displacement of an elastic variable is bounded
\* without the trust region by [x_L_i - x_i, x_U_i - x_i], whose lower end is 0 - x_i.
C10_VariableDisplacementBounds ==
    /\ active_set_pc \notin {"idle", "constructed"} =>
           \A i \in 0..(original_problem.number_variables - 1) :
               /\ IsMaxOf(variables_bounds[i].lb, Neg(trust_region_radius),
                          Sub(original_problem.variables_bounds[i].lb, current_iterate_x[i]))
               /\ IsMinOf(variables_bounds[i].ub, trust_region_radius,
                          Sub(original_problem.variables_bounds[i].ub, current_iterate_x[i]))
    /\ active_set_pc \in {"direction_bounded", "solved", "recovered"} =>
           /\ \A i \in 0..(original_problem.number_variables - 1) :
                  /\ IsMaxOf(direction_lower_bounds[i], Neg(trust_region_radius),
                             Sub(original_problem.variables_bounds[i].lb, relaxed_primals[i]))
                  /\ IsMinOf(direction_upper_bounds[i], trust_region_radius,
                             Sub(original_problem.variables_bounds[i].ub, relaxed_primals[i]))
           /\ \A i \in original_problem.number_variables..(size(relaxed_primals) - 1) :
                  /\ direction_lower_bounds[i] = Sub(Zero, relaxed_primals[i])
                  /\ direction_upper_bounds[i] = Sub(variable_upper_bound(i), relaxed_primals[i])

C10_Witness ==
    /\ active_set_pc = "direction_bounded"
    /\ is_finite(trust_region_radius)
    /\ \E i \in 0..(original_problem.number_variables - 1) :
           /\ direction_lower_bounds[i] = Neg(trust_region_radius)
           /\ Lt(Sub(original_problem.variables_bounds[i].lb, relaxed_primals[i]),
                 Neg(trust_region_radius))
           /\ Lt(direction_upper_bounds[i], trust_region_radius)
    /\ \E i \in original_problem.number_variables..(size(relaxed_primals) - 1) :
           /\ relaxed_primals[i] # Zero
           /\ Lt(direction_lower_bounds[i], Neg(trust_region_radius))
           /\ Lt(trust_region_radius, direction_upper_bounds[i])

\* C12: generate_elastic_variables_ gives constraint j an entry in positive exactly
\* if its upper bound is finite and an entry in negative exactly if its lower bound
\* is finite: both for an equality or range constraint, none for a free one.
C12_ElasticMapsFollowFiniteBounds ==
    active_set_pc \in {"relaxed", "direction_bounded", "solved", "recovered"} =>
        /\ DOMAIN elastic_variables.positive \subseteq 0..(original_problem.number_constraints - 1)
        /\ DOMAIN elastic_variables.negative \subseteq 0..(original_problem.number_constraints - 1)
        /\ \A j \in 0..(original_problem.number_constraints - 1) :
               /\ j \in DOMAIN elastic_variables.positive
                      <=> is_finite(original_problem.constraint_bounds[j].ub)
               /\ j \in DOMAIN elastic_variables.negative
                      <=> is_finite(original_problem.constraint_bounds[j].lb)

C12_Witness ==
    /\ active_set_pc = "relaxed"
    /\ \E j, k \in 0..(original_problem.number_constraints - 1) :
           /\ j \in DOMAIN elastic_variables.positive \cap DOMAIN elastic_variables.negative
           /\ k \in DOMAIN elastic_variables.positive \ DOMAIN elastic_variables.negative

\* the elastic indices the two maps hold
AssignedElasticIndices ==
    {elastic_variables.positive[j] : j \in DOMAIN elastic_variables.positive}
        \cup {elastic_variables.negative[j] : j \in DOMAIN elastic_variables.negative}

\* C13: the indices assigned by generate_elastic_variables_ are pairwise distinct
\* across both maps and are exactly n, n+1, ..., n + |positive| + |negative| - 1.
C13_ElasticIndicesContiguous ==
    active_set_pc \in {"relaxed", "direction_bounded", "solved", "recovered"} =>
        LET count == size(elastic_variables.positive) + size(elastic_variables.negative)
        IN  /\ AssignedElasticIndices =
                   original_problem.number_variables..(original_problem.number_variables + count - 1)
            /\ Cardinality(AssignedElasticIndices) = count

C13_Witness ==
    /\ active_set_pc = "relaxed"
    /\ size(elastic_variables.positive) >= 2
    /\ size(elastic_variables.negative) >= 1
    /\ original_problem.number_variables \in AssignedElasticIndices

\* the tag of constraint j in the partition the restoration LP was built from
RestorationTag(j) == phase_2_direction.constraint_partition.constraint_feasibility[j]

\* C14: generate_feasibility_bounds_ gives an INFEASIBLE_LOWER constraint the interval
\* (-inf, c_L_j - c_j(x)], an INFEASIBLE_UPPER constraint [c_U_j - c_j(x), +inf) and a
\* FEASIBLE constraint [c_L_j - c_j(x), c_U_j - c_j(x)].
C14_RestorationConstraintBounds ==
    lp_pc = "restoration" =>
        \A j \in 0..(original_problem.number_constraints - 1) :
            LET lower == Sub(original_problem.constraint_bounds[j].lb, current_iterate_constraints[j])
                upper == Sub(original_problem.constraint_bounds[j].ub, current_iterate_constraints[j])
            IN  /\ RestorationTag(j) = "INFEASIBLE_LOWER" =>
                       constraints_bounds[j] = [lb |-> NegInf, ub |-> lower]
                /\ RestorationTag(j) = "INFEASIBLE_UPPER" =>
                       constraints_bounds[j] = [lb |-> upper, ub |-> PosInf]
                /\ RestorationTag(j) = "FEASIBLE" =>
                       constraints_bounds[j] = [lb |-> lower, ub |-> upper]

C14_Witness ==
    /\ lp_pc = "restoration"
    /\ \E j, k \in 0..(original_problem.number_constraints - 1) :
           /\ RestorationTag(j) = "INFEASIBLE_LOWER"
           /\ is_finite(original_problem.constraint_bounds[j].ub)
           /\ constraints_bounds[j].lb = NegInf
           /\ RestorationTag(k) = "INFEASIBLE_UPPER"
           /\ constraints_bounds[k].ub = PosInf

\* what constraint j adds to entry i of the restoration objective gradient
RestorationGradientTerm(j, i) ==
    LET derivative == SparseEntry(current_iterate_constraints_jacobian[j], i)
    IN  IF RestorationTag(j) = "INFEASIBLE_LOWER" THEN Neg(derivative)
        ELSE IF RestorationTag(j) = "INFEASIBLE_UPPER" THEN derivative
        ELSE Zero

RECURSIVE RestorationGradientSum(_, _)
RestorationGradientSum(i, count) ==
    IF count = 0 THEN Zero
    ELSE Add(RestorationGradientSum(i, count - 1), RestorationGradientTerm(count - 1, i))

\* C15: the objective gradient set by compute_l1_linear_objective_ is the sum of
\* -grad c_j over the INFEASIBLE_LOWER constraints and +grad c_j over the
\* INFEASIBLE_UPPER ones; FEASIBLE constraints add nothing and nothing of the
\* previous objective gradient is left.
C15_RestorationObjective ==
    lp_pc = "restoration" =>
        /\ DOMAIN current_iterate_objective_gradient
               \subseteq 0..(original_problem.number_variables - 1)
        /\ \A i \in 0..(original_problem.number_variables - 1) :
               SparseEntry(current_iterate_objective_gradient, i) =
                   RestorationGradientSum(i, original_problem.number_constraints)

C15_Witness ==
    /\ lp_pc = "restoration"
    /\ \E j, k \in 0..(original_problem.number_constraints - 1) :
           /\ RestorationTag(j) = "INFEASIBLE_LOWER"
           /\ RestorationTag(k) = "INFEASIBLE_UPPER"
    /\ \E i \in DOMAIN current_iterate_objective_gradient :
           current_iterate_objective_gradient[i] \notin {Zero, One}

\* LPSubproblem::solve has returned a direction
LPSolveReturned == lpsub_pc = "ready" /\ Len(lp_calls) > 0

RECURSIVE LatestCallWith(_, _)
LatestCallWith(flag, k) ==
    IF k = 0 THEN 0
    ELSE IF lp_calls[k].warmstart_information[flag] THEN k
    ELSE LatestCallWith(flag, k - 1)

\* the constraints as they were stored when solve call k set the bounds
StoredConstraintsAt(k) ==
    LET evaluated == LatestCallWith("constraints_changed", k)
    IN  IF evaluated = 0 THEN InitialEvaluations(lpsub_problem).constraints
        ELSE lp_evaluate_constraints(lp_calls[evaluated].primals)

\* C20: after any sequence of solve calls, the stored objective gradient is the one
\* evaluated at the latest call with objective_changed, the stored constraints and
\* Jacobian those of the latest call with constraints_changed, the variable-displacement
\* bounds those of the latest call with variable_bounds_changed, the linearized-constraint
\* bounds those computed at the latest call with constraint_bounds_changed (each is the
\* initial value if there was no such call); the LP solver has been called once per
\* solve, the last time with the flags of the latest solve.
C20_WarmstartFlagsHonoured ==
    lpsub_pc = "ready" =>
        LET calls == Len(lp_calls)
            objective == LatestCallWith("objective_changed", calls)
            constraints == LatestCallWith("constraints_changed", calls)
            variable_bounds == LatestCallWith("variable_bounds_changed", calls)
            constraint_bounds == LatestCallWith("constraint_bounds_changed", calls)
        IN  /\ lp_evaluations.objective_gradient =
                   IF objective = 0 THEN InitialEvaluations(lpsub_problem).objective_gradient
                   ELSE lp_evaluate_objective_gradient(lp_calls[objective].primals)
            /\ lp_evaluations.constraints = StoredConstraintsAt(calls)
            /\ lp_evaluations.constraint_jacobian =
                   IF constraints = 0
                   THEN InitialEvaluations(lpsub_problem).constraint_jacobian
                   ELSE lp_evaluate_constraint_jacobian(lp_calls[constraints].primals)
            /\ variable_displacement_bounds =
                   IF variable_bounds = 0
                   THEN InitialVariableDisplacementBounds(lpsub_problem)
                   ELSE set_variable_displacement_bounds(lpsub_problem,
                            lp_calls[variable_bounds].primals, lpsub_trust_region_radius)
            /\ linearized_constraint_bounds =
                   IF constraint_bounds = 0
                   THEN InitialLinearizedConstraintBounds(lpsub_problem)
                   ELSE set_linearized_constraint_bounds(lpsub_problem,
                            StoredConstraintsAt(constraint_bounds))
            /\ lp_solver_calls.count = calls
            /\ calls > 0 =>
                   lp_solver_calls.warmstart_information =
                       lp_calls[calls].warmstart_information

\* two solves at different points; the second one re-evaluates nothing and recomputes
\* no bound, and what the first one stored is still there
C20_Witness ==
    /\ Len(lp_calls) = 2
    /\ lp_calls[1].primals # lp_calls[2].primals
    /\ lp_calls[1].warmstart_information =
           [objective_changed |-> TRUE, constraints_changed |-> TRUE,
            variable_bounds_changed |-> TRUE, constraint_bounds_changed |-> TRUE]
    /\ lp_calls[2].warmstart_information = NoWarmstartInformation
    /\ lp_evaluations.objective_gradient #
           lp_evaluate_objective_gradient(lp_calls[2].primals)
    /\ lp_solver_calls.count = 2

\* C16: create returns the QP subproblem for "QP", the LP subproblem for "LP", the
\* primal-dual interior-point method for "primal_dual_interior_point", and for every
\* other value of the option throws invalid_argument and returns nothing; every name
\* returned by available_strategies() is accepted by create.
C16_SubproblemSelection ==
    /\ factory_pc \in {"created", "failed"} =>
           /\ factory_options.subproblem = "QP" =>
                  created_method = "QPSubproblem" /\ thrown_exception = "none"
           /\ factory_options.subproblem = "LP" =>
                  created_method = "LPSubproblem" /\ thrown_exception = "none"
           /\ factory_options.subproblem = "primal_dual_interior_point" =>
                  /\ created_method = "PrimalDualInteriorPointMethod"
                  /\ thrown_exception = "none"
           /\ factory_options.subproblem \notin {"QP", "LP", "primal_dual_interior_point"} =>
                  created_method = "none" /\ thrown_exception = "invalid_argument"
    /\ strategies_returned =>
           \A k \in 1..Len(strategies) :
               /\ create(strategies[k]).thrown = "none"
               /\ factory_options.subproblem = strategies[k] =>
                      factory_pc \in {"configured", "created"}

\* create has thrown on an unknown name while available_strategies() returned all three
C16_Witness ==
    /\ factory_pc = "failed"
    /\ thrown_exception = "invalid_argument"
    /\ factory_options.subproblem = "qp"
    /\ strategies_returned
    /\ Len(strategies) = 3

\* C17: when problem.inequality_constraints is not empty, a call of initialize() or of
\* solve() fails the assertion on the inequality constraints and changes neither the
\* iterate, nor the barrier parameter, nor the augmented system, nor anything else of
\* the subproblem.
C17_InequalitiesRejected ==
    [][(problem.inequality_constraints # {} /\ pc \in {"constructed", "ready"}) =>
           /\ pc' = "aborted"
           /\ assertion_failed' = "inequality_constraints"
           /\ last' = (IF pc = "constructed" THEN "initialize" ELSE "solve")
           /\ UNCHANGED <<problem, parameters, primals, lower_bounds, upper_bounds,
                          multipliers_constraints, barrier_parameter,
                          previous_barrier_parameter, solving_feasibility_problem,
                          subproblem_definition_changed, evaluations_constraints, solution,
                          lower_delta_z, upper_delta_z, direction,
                          number_subproblems_solved, first_iterate_flags>>]_vars

\* solve() was called on a problem with an inequality constraint and stopped at its
\* first assertion
C17_Witness ==
    /\ problem.inequality_constraints # {}
    /\ pc = "aborted"
    /\ last = "solve"
    /\ assertion_failed = "inequality_constraints"

\* the fourth power
Power4(a) == Mul(Mul(a, a), Mul(a, a))

\* C18: in solve(), a finite lower bound with x_i - x_L_i < eps_mach*mu is decreased by
\* max(1, |x_L_i|)*eps_mach^(3/4), a finite upper bound with x_U_i - x_i < eps_mach*mu is
\* increased by max(1, |x_U_i|)*eps_mach^(3/4), and x is then strictly inside the bounds
\* used by the rest of the solve.  The amount r = max(1, |b|)*eps^(3/4) is stated as
\* r > 0 and r^4 = max(1, |b|)^4 * eps^3.
C18_BoundsRelaxed ==
    [][(pc = "ready" /\ last' = "solve" /\ equality_constrained(problem)) =>
           \A i \in 1..Len(primals) :
               LET lb == problem.variable_lower_bounds[i]
                   ub == problem.variable_upper_bounds[i]
                   threshold == Mul(machine_epsilon, barrier_parameter')
                   eps3 == Mul(machine_epsilon, Mul(machine_epsilon, machine_epsilon))
                   lowered == Sub(lb, problem'.variable_lower_bounds[i])
                   raised == Sub(problem'.variable_upper_bounds[i], ub)
               IN  /\ (is_finite(lb) /\ Lt(Sub(primals[i], lb), threshold)) =>
                          /\ Lt(Zero, lowered)
                          /\ Power4(lowered) = Mul(Power4(StdMax(One, AbsX(lb))), eps3)
                          /\ Lt(problem'.variable_lower_bounds[i], primals[i])
                   /\ (is_finite(ub) /\ Lt(Sub(ub, primals[i]), threshold)) =>
                          /\ Lt(Zero, raised)
                          /\ Power4(raised) = Mul(Power4(StdMax(One, AbsX(ub))), eps3)
                          /\ Lt(primals[i], problem'.variable_upper_bounds[i])]_vars

\* C19: when initialize() has changed the primals of the first iterate, all four validity
\* flags of that iterate (objective, objective gradient, constraints, constraint
\* Jacobian) are false when it returns.
C19_CachesInvalidated ==
    [][(pc = "constructed" /\ pc' = "ready" /\ primals' # primals) =>
           first_iterate_flags' = FreshFlags]_vars

\* C21: compute_lp_step_ returns a Direction with phase OPTIMALITY and the objective sign
\* of the problem as objective multiplier, and starts the solver from the zero vector;
\* compute_l1lp_step_ returns a Direction with phase RESTORATION, objective multiplier 0
\* and the constraint partition of the phase-2 direction, and starts the solver from the
\* x of the phase-2 direction.
C21_PhaseTagsAndWarmStart ==
    /\ lp_pc \in {"phase_2", "restoration"} =>
           /\ phase_2_direction.phase = "OPTIMALITY"
           /\ phase_2_direction.objective_multiplier = original_problem.objective_sign
    /\ lp_pc = "phase_2" =>
           /\ DOMAIN solver_initial_point = DOMAIN current_iterate_x
           /\ \A i \in DOMAIN solver_initial_point : solver_initial_point[i] = Zero
    /\ lp_pc = "restoration" =>
           /\ l1lp_direction.phase = "RESTORATION"
           /\ l1lp_direction.objective_multiplier = Zero
           /\ l1lp_direction.constraint_partition = phase_2_direction.constraint_partition
           /\ solver_initial_point = phase_2_direction.x

\* a restoration step after a phase-2 step with a nonzero x and an infeasible constraint,
\* on the problem whose objective sign is -1
C21_Witness ==
    /\ lp_pc = "restoration"
    /\ original_problem.objective_sign = R(-1, 1)
    /\ phase_2_direction.constraint_partition.infeasible # <<>>
    /\ \E i \in DOMAIN solver_initial_point : solver_initial_point[i] # Zero

\* C25: the predicted reduction of an LP direction at step length alpha is
\* -alpha * direction.objective, that is alpha times its value at step length 1, and 0 at
\* step length 0; it is computed from the Direction handed to the call, for the
\* optimality and for the restoration LP step.
C25_PredictedReductionLinear ==
    predicted_reduction_evaluation # NoEvaluation =>
        LET evaluation == predicted_reduction_evaluation
            dir == evaluation.direction
        IN  /\ dir.predicted_reduction = "compute_lp_predicted_reduction_"
            /\ evaluation.value = Neg(Mul(evaluation.step_length, dir.objective))
            /\ evaluation.value =
                   Mul(evaluation.step_length, compute_lp_predicted_reduction_(dir, One))
            /\ evaluation.step_length = Zero => evaluation.value = Zero

\* the restoration direction evaluated at step length 1/2 while the phase-2 direction has
\* another objective
C25_Witness ==
    /\ lp_pc = "restoration"
    /\ predicted_reduction_evaluation.direction = l1lp_direction
    /\ predicted_reduction_evaluation.step_length = Half
    /\ l1lp_direction.objective = R(2, 1)
    /\ phase_2_direction.objective = R(-1, 1)
    /\ predicted_reduction_evaluation.value = R(-1, 1)

\* the tag of constraint j says where its current value lies
TagConsistent(j) ==
    LET value == current_iterate_constraints[j]
        range == original_problem.constraint_bounds[j]
    IN  /\ RestorationTag(j) = "INFEASIBLE_LOWER" => Lt(value, range.lb)
        /\ RestorationTag(j) = "INFEASIBLE_UPPER" => Lt(range.ub, value)
        /\ RestorationTag(j) = "FEASIBLE" => Le(range.lb, value) /\ Le(value, range.ub)

\* C29: when every tag of the constraint partition is consistent with the current
\* constraint values, every interval of the restoration LP contains 0, so that the zero
\* displacement satisfies all its linearized constraints.
C29_ZeroStepFeasibleInRestoration ==
    (/\ lp_pc = "restoration"
     /\ \A j \in 0..(original_problem.number_constraints - 1) : TagConsistent(j)) =>
        \A j \in 0..(original_problem.number_constraints - 1) :
            /\ Le(constraints_bounds[j].lb, Zero)
            /\ Le(Zero, constraints_bounds[j].ub)

\* a consistent partition with a constraint below its lower bound and one above its
\* upper bound
C29_Witness ==
    /\ lp_pc = "restoration"
    /\ \A j \in 0..(original_problem.number_constraints - 1) : TagConsistent(j)
    /\ \E j, k \in 0..(original_problem.number_constraints - 1) :
           /\ RestorationTag(j) = "INFEASIBLE_LOWER"
           /\ Lt(Zero, constraints_bounds[j].ub)
           /\ RestorationTag(k) = "INFEASIBLE_UPPER"
           /\ Lt(constraints_bounds[k].lb, Zero)

\* the first count entries of x are within the bounds of their variables
WithinBounds(x, count) ==
    \A i \in 0..(count - 1) :
        Le(variable_lower_bound(i), x[i]) /\ Le(x[i], variable_upper_bound(i))

\* C28: for an iterate within its bounds and a trust-region radius >= 0, every interval
\* computed by generate_variables_bounds_ and by set_direction_bounds has
\* lower <= 0 <= upper, so that the zero displacement is admissible.
C28_ZeroDisplacementAdmissible ==
    /\ (/\ active_set_pc \notin {"idle", "constructed"}
        /\ Le(Zero, trust_region_radius)
        /\ WithinBounds(current_iterate_x, original_problem.number_variables)) =>
           \A i \in 0..(original_problem.number_variables - 1) :
               /\ Le(variables_bounds[i].lb, Zero)
               /\ Le(Zero, variables_bounds[i].ub)
               /\ Le(variables_bounds[i].lb, variables_bounds[i].ub)
    /\ (/\ active_set_pc \in {"direction_bounded", "solved", "recovered"}
        /\ Le(Zero, trust_region_radius)
        /\ WithinBounds(relaxed_primals, size(relaxed_primals))) =>
           \A i \in 0..(size(relaxed_primals) - 1) :
               /\ Le(direction_lower_bounds[i], Zero)
               /\ Le(Zero, direction_upper_bounds[i])
               /\ Le(direction_lower_bounds[i], direction_upper_bounds[i])

\* an iterate within its bounds, strictly inside a finite lower bound that is nearer
\* than the trust-region radius, with an elastic variable off its bound
C28_Witness ==
    /\ active_set_pc = "direction_bounded"
    /\ is_finite(trust_region_radius)
    /\ WithinBounds(relaxed_primals, size(relaxed_primals))
    /\ \E i \in 0..(original_problem.number_variables - 1) :
           /\ Lt(Neg(trust_region_radius), direction_lower_bounds[i])
           /\ Lt(direction_lower_bounds[i], Zero)
           /\ variables_bounds[i].lb = direction_lower_bounds[i]
    /\ \E i \in original_problem.number_variables..(size(relaxed_primals) - 1) :
           Lt(direction_lower_bounds[i], Zero)

\* the zero radius with an iterate on its lower bound: the interval is the point 0
C28_WitnessZeroRadius ==
    /\ active_set_pc = "direction_bounded"
    /\ trust_region_radius = Zero
    /\ WithinBounds(relaxed_primals, size(relaxed_primals))
    /\ \E i \in 0..(original_problem.number_variables - 1) :
           /\ relaxed_primals[i] = variable_lower_bound(i)
           /\ direction_lower_bounds[i] = Zero
           /\ direction_upper_bounds[i] = Zero

\* the perturbations of push_variable_to_interior for the bounds of variable i
PerturbationLb(i) ==
    StdMin(Mul(parameters.push_variable_to_interior_k1,
               StdMax(One, AbsX(get_variable_lower_bound(i)))),
           Mul(parameters.push_variable_to_interior_k2,
               Sub(get_variable_upper_bound(i), get_variable_lower_bound(i))))

PerturbationUb(i) ==
    StdMin(Mul(parameters.push_variable_to_interior_k1,
               StdMax(One, AbsX(get_variable_upper_bound(i)))),
           Mul(parameters.push_variable_to_interior_k2,
               Sub(get_variable_upper_bound(i), get_variable_lower_bound(i))))

\* the value initialize hands to push_variable_to_interior for variable i
PushedValue(i) ==
    IF \E s \in problem.slacks : s[2] = i
    THEN evaluate_constraints(primals)[(CHOOSE s \in problem.slacks : s[2] = i)[1]]
    ELSE primals[i]

\* C30: for finite bounds lb < ub, k1 > 0 and 0 < k2 < 1/2, push_variable_to_interior
\* returns v with lb + p_lb <= v <= ub - p_ub, where p_lb = min(k1*max(1,|lb|), k2*(ub-lb))
\* and p_ub = min(k1*max(1,|ub|), k2*(ub-lb)) are positive, hence lb < v < ub; it returns
\* its input when that already lies in the interval, and applying it again changes nothing.
C30_PushedToInterior ==
    [][(pc = "constructed" /\ pc' = "ready") =>
        \A i \in 1..number_variables :
            LET lb == get_variable_lower_bound(i)
                ub == get_variable_upper_bound(i)
                lowest == Add(lb, PerturbationLb(i))
                highest == Sub(ub, PerturbationUb(i))
                v == primals'[i]
            IN  (/\ is_finite(lb) /\ is_finite(ub) /\ Lt(lb, ub)
                 /\ Lt(Zero, parameters.push_variable_to_interior_k1)
                 /\ Lt(Zero, parameters.push_variable_to_interior_k2)
                 /\ Lt(parameters.push_variable_to_interior_k2, Half)) =>
                    /\ Lt(Zero, PerturbationLb(i)) /\ Lt(Zero, PerturbationUb(i))
                    /\ Le(lowest, v) /\ Le(v, highest)
                    /\ Lt(lb, v) /\ Lt(v, ub)
                    /\ (Le(lowest, PushedValue(i)) /\ Le(PushedValue(i), highest)) =>
                           v = PushedValue(i)
                    /\ push_variable_to_interior(v, [lb |-> lb, ub |-> ub]) = v]_vars

\* after initialize: a variable pushed up to lb + k2*(ub - lb), which is nearer than
\* k1*max(1,|lb|), and one pushed down to ub - k1*max(1,|ub|)
C30_Witness ==
    /\ pc = "ready"
    /\ last = "initialize"
    /\ \E i, k \in 1..number_variables :
           /\ primals[i] = Add(get_variable_lower_bound(i), PerturbationLb(i))
           /\ Lt(PerturbationLb(i), Mul(parameters.push_variable_to_interior_k1,
                                        StdMax(One, AbsX(get_variable_lower_bound(i)))))
           /\ primals[k] = Sub(get_variable_upper_bound(k), PerturbationUb(k))
           /\ Lt(PerturbationUb(k), Mul(parameters.push_variable_to_interior_k2,
                                        Sub(get_variable_upper_bound(k),
                                            get_variable_lower_bound(k))))

\* C24: after a solve, for every lower-bounded variable
\* (x_i - x_L_i) * (z_L_i + dz_L_i) = mu - dx_i * z_L_i, for every upper-bounded variable
\* (x_i - x_U_i) * (z_U_i + dz_U_i) = mu - dx_i * z_U_i, and dz_L_i = 0 (dz_U_i = 0) for
\* every variable without a finite lower (upper) bound, whatever the vectors held before.
C24_BoundDualDirection ==
    (pc = "solved" /\ last = "solve") =>
        /\ \A i \in lower_bounded_variables :
               Mul(Sub(primals[i], get_variable_lower_bound(i)),
                   Add(lower_bounds[i], lower_delta_z[i]))
                   = Sub(barrier_parameter, Mul(solution[i], lower_bounds[i]))
        /\ \A i \in upper_bounded_variables :
               Mul(Sub(primals[i], get_variable_upper_bound(i)),
                   Add(upper_bounds[i], upper_delta_z[i]))
                   = Sub(barrier_parameter, Mul(solution[i], upper_bounds[i]))
        /\ \A i \in (1..number_variables) \ lower_bounded_variables : lower_delta_z[i] = Zero
        /\ \A i \in (1..number_variables) \ upper_bounded_variables : upper_delta_z[i] = Zero
        /\ direction.lower_bounds = lower_delta_z
        /\ direction.upper_bounds = upper_delta_z
        /\ direction.primals = [i \in 1..number_variables |-> solution[i]]

\* a solve on the problem with one-sided bounds: nonzero displacements for the bounded
\* variables after mu was decreased, zeros for the others
C24_Witness ==
    /\ pc = "solved" /\ last = "solve"
    /\ barrier_parameter = R(1, 4)
    /\ \E i \in lower_bounded_variables, k \in (1..number_variables) \ lower_bounded_variables :
           /\ lower_delta_z[i] # Zero
           /\ lower_delta_z[k] = Zero
           /\ upper_delta_z[i] = Zero
           /\ upper_delta_z[k] # Zero
           /\ solution[i] # Zero
           /\ lower_bounds[i] # Zero

\* the Lagrangian term of variable i: the sum over the constraints of lambda_j * dc_j/dx_i
LagrangianTerm(i) ==
    SumSeq([j \in 1..number_constraints |->
               Mul(multipliers_constraints[j], evaluate_constraint_jacobian(primals)[j][i])],
           number_constraints)

\* C23: after generate_augmented_rhs, entry i of the right-hand side is minus the barrier
\* objective gradient plus the sum over j of lambda_j * dc_j/dx_i, and entry n+j is
\* -c_j(x); nothing of the previous contents is left, so a solve after a second-order
\* correction discards what the correction wrote.
C23_RightHandSide ==
    (pc = "solved" /\ last = "solve") =>
        /\ \A i \in 1..number_variables :
               rhs[i] = Add(Neg(Add(evaluate_objective_gradient(primals)[i],
                                    objective_barrier_term(i, primals, barrier_parameter))),
                            LagrangianTerm(i))
        /\ \A j \in 1..number_constraints :
               rhs[number_variables + j] = Neg(evaluate_constraints(primals)[j])

\* a solve that follows a second-order correction
C23_Witness ==
    /\ pc = "solved" /\ last = "solve"
    /\ trial_iterate # NoTrialIterate
    /\ number_subproblems_solved = 3
    /\ \E i \in 1..number_variables : rhs[i] # Zero
    /\ rhs[number_variables + 1] # Zero

\* C22: compute_second_order_correction with primal step length alpha changes the
\* right-hand side only in its constraint block, where entry n+j becomes
\* alpha * rhs[n+j] - c_j(x_trial), which is -alpha * c_j(x) - c_j(x_trial) right after
\* solve(); the system is solved again with the matrix of the solve, and the direction
\* is generated against the trial iterate.
C22_SecondOrderCorrection ==
    [][(pc = "solved" /\ last' = "compute_second_order_correction") =>
        LET n == number_variables
            alpha == trial_iterate'.primal_step_length
            trial == trial_iterate'
        IN  /\ \A i \in 1..n : rhs'[i] = rhs[i]
            /\ \A j \in 1..number_constraints :
                   /\ rhs'[n + j] = Sub(Mul(alpha, rhs[n + j]),
                                        evaluate_constraints(trial.primals)[j])
                   /\ last = "solve" =>
                          rhs'[n + j] = Sub(Mul(Neg(alpha), evaluate_constraints(primals)[j]),
                                            evaluate_constraints(trial.primals)[j])
            /\ number_subproblems_solved' = number_subproblems_solved + 1
            /\ dual_regularization_parameter' = dual_regularization_parameter
            /\ evaluations_objective_gradient' = evaluations_objective_gradient
            /\ barrier_parameter' = barrier_parameter
            /\ pc' = "corrected" =>
                   /\ direction'.primals = [i \in 1..n |-> solution'[i]]
                   /\ direction'.primal_dual_step_length =
                          primal_fraction_to_boundary(solution', trial.primals,
                                                      fraction_to_boundary_tau(barrier_parameter))
                   /\ \A i \in lower_bounded_variables :
                          Mul(Sub(trial.primals[i], get_variable_lower_bound(i)),
                              Add(trial.lower_bounds[i], direction'.lower_bounds[i]))
                              = Sub(barrier_parameter, Mul(solution'[i], trial.lower_bounds[i]))
                   /\ \A i \in upper_bounded_variables :
                          Mul(Sub(trial.primals[i], get_variable_upper_bound(i)),
                              Add(trial.upper_bounds[i], direction'.upper_bounds[i]))
                              = Sub(barrier_parameter, Mul(solution'[i], trial.upper_bounds[i]))]_vars

\* after a correction with a step length below 1 at an iterate whose constraint is
\* not satisfied: the scaling of the constraint block shows
C22_Witness ==
    /\ pc = "corrected"
    /\ last = "compute_second_order_correction"
    /\ Lt(Zero, trial_iterate.primal_step_length)
    /\ Lt(trial_iterate.primal_step_length, One)
    /\ trial_iterate.primals # primals
    /\ evaluate_constraints(primals)[1] # Zero
    /\ rhs[number_variables + 1] =
           Sub(Mul(Neg(trial_iterate.primal_step_length), evaluate_constraints(primals)[1]),
               evaluate_constraints(trial_iterate.primals)[1])

\* the barrier term of variable i for the barrier parameter mu: -mu / (x_i - x_L_i) for a
\* finite lower bound, -mu / (x_i - x_U_i) for a finite upper bound, and the damping
\* term of a variable bounded on one side only
BarrierGradientTerm(i, mu) ==
    LET lb == get_variable_lower_bound(i)
        ub == get_variable_upper_bound(i)
        lower == IF is_finite(lb) THEN Neg(Div(mu, Sub(primals[i], lb))) ELSE Zero
        upper == IF is_finite(ub) THEN Neg(Div(mu, Sub(primals[i], ub))) ELSE Zero
        damping == IF is_finite(lb) /\ ~is_finite(ub) THEN Mul(damping_factor, mu)
                   ELSE IF is_finite(ub) /\ ~is_finite(lb) THEN Neg(Mul(damping_factor, mu))
                   ELSE Zero
    IN  Add(Add(lower, upper), damping)

\* C27: one solve() updates the barrier parameter first and only there, then evaluates
\* the functions, assembles and regularizes the system, generates the right-hand side,
\* solves and generates the direction: the barrier gradient terms, the dual
\* regularization, the bound-multiplier displacements and tau all use the updated mu,
\* the right-hand side is built from the evaluations of this solve, the direction from
\* its solution, and number_subproblems_solved increases by exactly one.
C27_OneBarrierParameterPerSolve ==
    [][(pc = "ready" /\ pc' = "solved") =>
        LET n == number_variables
            mu == barrier_parameter'
        IN  /\ mu \in update_barrier_parameter_strategy(barrier_parameter)
            /\ subproblem_definition_changed' =
                   (subproblem_definition_changed \/ mu # barrier_parameter)
            /\ \A i \in 1..n :
                   evaluations_objective_gradient'[i] =
                       Add(evaluate_objective_gradient(primals)[i], BarrierGradientTerm(i, mu))
            /\ evaluations_constraints' = evaluate_constraints(primals)
            /\ dual_regularization_parameter' = Power(mu, parameters.regularization_exponent)
            /\ \A i \in 1..n :
                   rhs'[i] = Add(Neg(evaluations_objective_gradient'[i]), LagrangianTerm(i))
            /\ \A j \in 1..number_constraints :
                   rhs'[n + j] = Neg(evaluations_constraints'[j])
            /\ direction'.primals = [i \in 1..n |-> solution'[i]]
            /\ direction'.primal_dual_step_length =
                   primal_fraction_to_boundary(solution', primals,
                                               StdMax(parameters.tau_min, Sub(One, mu)))
            /\ \A i \in lower_bounded_variables :
                   Mul(Sub(primals[i], get_variable_lower_bound(i)),
                       Add(lower_bounds[i], direction'.lower_bounds[i]))
                       = Sub(mu, Mul(solution'[i], lower_bounds[i]))
            /\ \A i \in upper_bounded_variables :
                   Mul(Sub(primals[i], get_variable_upper_bound(i)),
                       Add(upper_bounds[i], direction'.upper_bounds[i]))
                       = Sub(mu, Mul(solution'[i], upper_bounds[i]))
            /\ number_subproblems_solved' = number_subproblems_solved + 1
            /\ primals' = primals]_vars

\* a first solve that decreased mu from 1/4 to 1/16
C27_Witness ==
    /\ pc = "solved" /\ last = "solve"
    /\ number_subproblems_solved = 1
    /\ barrier_parameter = R(1, 16)
    /\ subproblem_definition_changed
    /\ dual_regularization_parameter = R(1, 256)
    /\ \E i \in 1..number_variables :
           /\ BarrierGradientTerm(i, barrier_parameter) # Zero
           /\ BarrierGradientTerm(i, barrier_parameter) # BarrierGradientTerm(i, R(1, 4))
           /\ evaluations_objective_gradient[i] =
                  Add(evaluate_objective_gradient(primals)[i],
                      BarrierGradientTerm(i, barrier_parameter))

\* C26: when the direction computed by solve() is a small step, solve() flags it in
\* state the driver sees afterwards: the status of the returned Direction is no longer
\* OPTIMAL, or a boolean member of the subproblem is changed by the solve for another
\* reason than an update of the barrier parameter.
C26_SmallStepRecorded ==
    [][(pc = "ready" /\ pc' = "solved" /\ is_small_step(primals, direction')) =>
        \/ direction'.status # "OPTIMAL"
        \/ solving_feasibility_problem' # solving_feasibility_problem
        \/ /\ subproblem_definition_changed' # subproblem_definition_changed
           /\ barrier_parameter' = barrier_parameter]_vars

\* solve() returns the same flags for a small step and for a step that is not small
C26_SmallAndLargeStepsAlike ==
    (pc = "solved" /\ last = "solve") =>
        /\ direction.status = "OPTIMAL"
        /\ ~solving_feasibility_problem

C26_WitnessSmallStep ==
    /\ pc = "solved" /\ last = "solve"
    /\ is_small_step(primals, direction)
    /\ \E i \in 1..number_variables : direction.primals[i] # Zero

C26_WitnessLargeStep ==
    /\ pc = "solved" /\ last = "solve"
    /\ ~is_small_step(primals, direction)

============================================================================
